---------------------------- MODULE Spec2Model ----------------------------
(***************************************************************************)
(* OpoQuiz: question selection, bank ingestion, answer recording and       *)
(* scoring, modelled from src/app/database.py (DatabaseManager) and        *)
(* src/app/main.py (the request handlers).                                 *)
(*                                                                         *)
(* Tables are sets of row records (user_answers rows carry their rowid).   *)
(* Row records.  A Python dict is a function whose DOMAIN is its key set;  *)
(* a key whose value is None is modelled as an absent key.  A text value   *)
(* that the code inspects character by character (keywords_json) is a      *)
(* sequence of one-character strings.  A float is an exact rational        *)
(* [n, d] in lowest terms.                                                 *)
(***************************************************************************)
EXTENDS Integers, Sequences, FiniteSets, TLC

(***************************************************************************)
(* Bounds of the model.                                                    *)
(***************************************************************************)
MaxDocLen == 2          \* questions per submitted bank document
MaxLimit == 2           \* largest limit / num_questions passed to a query
MaxUpdates == 3         \* update_question_usage calls in one behaviour
MaxClock == 2           \* distinct CURRENT_TIMESTAMP values
MaxSessions == 2        \* sessions created in one behaviour
MaxGraded == 1          \* sessions created in one behaviour of Spec
MaxTaken == 2           \* completions counted per test
MaxAnswers == 2

MaxRows == 3         \* answers held by the sessions of one behaviour

(***************************************************************************)
(* Generic helpers.                                                        *)
(***************************************************************************)
Min(a, b) == IF a <= b THEN a ELSE b

Max(a, b) == IF a >= b THEN a ELSE b

Range(s) == {s[i] : i \in 1..Len(s)}

RECURSIVE SeqSum(_)
SeqSum(s) == IF s = <<>> THEN 0 ELSE Head(s) + SeqSum(Tail(s))

SeqsUpTo(S, n) == UNION {[1..k -> S] : k \in 0..n}

RECURSIVE Gcd(_, _)
Gcd(a, b) == IF b = 0 THEN a ELSE Gcd(b, a % b)

\* exact value of the float n / d (d > 0), in lowest terms
Rat(n, d) == LET g == Gcd(n, d) IN [n |-> n \div g, d |-> d \div g]

RatGeq(x, y) == x.n * y.d >= y.n * x.d

RatAdd(x, y) == Rat(x.n * y.d + y.n * x.d, x.d * y.d)

RatTimes(x, k) == Rat(x.n * k, x.d)

RatOver(x, k) == Rat(x.n, x.d * k)

\* round(x, 2): the nearest hundredth, a tie going to the even one
Round2(x) ==
    LET h == (x.n * 100) \div x.d
        r == (x.n * 100) % x.d
    IN  Rat(IF 2 * r > x.d \/ (2 * r = x.d /\ h % 2 = 1) THEN h + 1 ELSE h, 100)

RatMax(x, y) == IF RatGeq(x, y) THEN x ELSE y

RatMin(x, y) == IF RatGeq(x, y) THEN y ELSE x


(***************************************************************************)
(* Bank documents.  A submitted document has passed QuestionBankSchema     *)
(* (schemas.py:37-56): four options, correct_answer in 0..3, difficulty in *)
(* easy/medium/hard.  The content of a question is drawn from a small      *)
(* catalogue indexed by (identifier, version).                             *)
(***************************************************************************)
QIds == {"q1", "q2", "q3"}

BankIds == {"b1", "b2"}

Versions == {"v1", "v2"}

\* requester identities; a caller that knows none passes "" and the store
\* falls back to the sentinel "anonymous"
IPs == {"X", "anonymous"}

CallerIps == {"X", ""}

QText(id, v) == <<id, v>>

QCorrect(id, v) ==
    CASE id = "q1" -> IF v = "v1" THEN 0 ELSE 1
      [] id = "q2" -> 2
      [] OTHER     -> IF v = "v1" THEN 1 ELSE 0

QDifficulty(id, v) == IF id = "q3" THEN "hard" ELSE "easy"

QCategory(id, v) == IF id = "q2" THEN "catB" ELSE "catA"

QKeywords(id, v) ==
    CASE id = "q1" -> << <<"a", "b">> >>
      [] id = "q2" -> << >>
      [] OTHER     -> << <<"B">>, <<"c">> >>

\* whether the document gives the question a source_info object
QHasSource(id, v) == ~(id = "q3" /\ v = "v2")

QuestionDoc(id, v) ==
    [id |-> id, question |-> QText(id, v), correct_answer |-> QCorrect(id, v),
     difficulty |-> QDifficulty(id, v), category |-> QCategory(id, v),
     keywords |-> QKeywords(id, v), has_source |-> QHasSource(id, v)]

QuestionDocs == {QuestionDoc(id, v) : id \in QIds, v \in Versions}

BankDocs == [bank_id : BankIds, questions : SeqsUpTo(QuestionDocs, MaxDocLen)]

\* the bank_*.json files present in tests_dir when the process starts
StartupDocs ==
    << [bank_id |-> "b1",
        questions |-> <<QuestionDoc("q1", "v1"), QuestionDoc("q2", "v1")>>],
       [bank_id |-> "b2", questions |-> <<QuestionDoc("q3", "v1")>>] >>

(***************************************************************************)
(* json.dumps of a list of ASCII strings: ["a", "b"]                       *)
(***************************************************************************)
RECURSIVE JsonItems(_)
JsonItems(kws) ==
    IF kws = <<>> THEN <<>>
    ELSE <<"\"">> \o Head(kws) \o <<"\"">>
         \o (IF Len(kws) > 1 THEN <<",", " ">> ELSE <<>>)
         \o JsonItems(Tail(kws))

JsonDumpsList(kws) == <<"[">> \o JsonItems(kws) \o <<"]">>

(***************************************************************************)
(* The store and the process state.                                        *)
(***************************************************************************)
VARIABLES
    questions,          \* table questions: set of rows, question_id UNIQUE
    question_banks,     \* table question_banks: set of rows, bank_id UNIQUE
    question_usage,     \* table question_usage: UNIQUE(question_id, user_ip)
    dynamic_tests,      \* table dynamic_tests: set of rows, test_id UNIQUE
    test_sessions,      \* table test_sessions: set of rows, session_id UNIQUE
    session_progress,   \* table session_progress: session_id PRIMARY KEY
    user_answers,       \* table user_answers: id PRIMARY KEY, no other UNIQUE
    test_stats,         \* table test_stats: test_id PRIMARY KEY
    tests_cache,        \* app.state.tests_cache: set of cached TestSchema
    now,                \* the store's CURRENT_TIMESTAMP, in seconds
    ids_issued,         \* uuid4 values handed out so far (sessions)
    inflight,           \* the complete_test requests being served, by request
    response            \* what the last request returned to its caller

vars == <<questions, question_banks, question_usage, dynamic_tests,
          test_sessions, session_progress, user_answers, test_stats,
          tests_cache, now, ids_issued, inflight, response>>

bankVars == <<questions, question_banks>>

\* the requests that may be in service at the same time
Requests == {"r1", "r2"}

\* a request that has not arrived
Idle == [pc |-> "idle"]

sessionVars == <<dynamic_tests, test_sessions, session_progress, user_answers,
                 test_stats, tests_cache, ids_issued, inflight>>

(***************************************************************************)
(* DatabaseManager.load_question_bank                                      *)
(***************************************************************************)
QuestionRow(bank_id, q) ==
    [question_id |-> q.id, bank_id |-> bank_id, question_text |-> q.question,
     correct_answer |-> q.correct_answer, difficulty |-> q.difficulty,
     category |-> q.category, keywords_json |-> JsonDumpsList(q.keywords),
     has_source |-> q.has_source]

\* one iteration of the loading loop: UPDATE the row holding the identifier
\* when there is one, INSERT otherwise
LoadQuestionBuggy(qs, bank_id, q) == qs \cup {QuestionRow(bank_id, q)}

LoadQuestion(qs, bank_id, q) ==
    LET exists == Cardinality({r \in qs : r.question_id = q.id}) > 0
    IN  IF exists
        THEN {IF r.question_id = q.id THEN QuestionRow(bank_id, q) ELSE r : r \in qs}
        ELSE qs \cup {QuestionRow(bank_id, q)}

RECURSIVE LoadQuestions(_, _, _)
LoadQuestions(qs, bank_id, docqs) ==
    IF docqs = <<>> THEN qs
    ELSE LoadQuestions(LoadQuestion(qs, bank_id, Head(docqs)), bank_id, Tail(docqs))

\* the early return: the bank is stored with the same number of questions
SkipLoadingNever(banks, bank_data) == FALSE

SkipLoading(banks, bank_data) ==
    \E b \in banks : /\ b.bank_id = bank_data.bank_id
                     /\ b.questions_count = Len(bank_data.questions)

SaveBankMetadata(banks, bank_data) ==
    {b \in banks : b.bank_id # bank_data.bank_id}
        \cup {[bank_id |-> bank_data.bank_id,
               questions_count |-> Len(bank_data.questions)]}

DeleteBankQuestionsKeep(qs, bank_id) == qs

DeleteBankQuestions(qs, bank_id) == {r \in qs : r.bank_id # bank_id}

\* the store after the call, and the value returned
load_question_bank(qs, banks, bank_data) ==
    IF SkipLoading(banks, bank_data)
    THEN [questions |-> qs, question_banks |-> banks, returned |-> 0]
    ELSE [questions |-> LoadQuestions(DeleteBankQuestions(qs, bank_data.bank_id),
                                      bank_data.bank_id, bank_data.questions),
          question_banks |-> SaveBankMetadata(banks, bank_data),
          returned |-> Len(bank_data.questions)]

\* lifespan: load_question_banks() loads every bank file into the empty store
RECURSIVE LoadStartup(_, _)
LoadStartup(db, docs) ==
    IF docs = <<>> THEN db
    ELSE LoadStartup(load_question_bank(db.questions, db.question_banks, Head(docs)),
                     Tail(docs))

StartupStore ==
    LoadStartup([questions |-> {}, question_banks |-> {}, returned |-> 0],
                StartupDocs)

(***************************************************************************)
(* POST /admin/upload and DELETE /admin/bank/{bank_id}                     *)
(***************************************************************************)
upload_question_bank(bank_data) ==
    LET r == load_question_bank(questions, question_banks, bank_data)
    IN  /\ questions' = r.questions
        /\ question_banks' = r.question_banks
        /\ response' = [op |-> "upload_question_bank", status |-> 200,
                        bank_data |-> bank_data,
                        questions_count |-> r.returned]
        /\ UNCHANGED <<question_usage, now, sessionVars>>

delete_question_bank(bank_id) ==
    /\ IF \E b \in question_banks : b.bank_id = bank_id
       THEN /\ questions' = DeleteBankQuestions(questions, bank_id)
            /\ question_banks' = {b \in question_banks : b.bank_id # bank_id}
            /\ response' = [op |-> "delete_question_bank", status |-> 200,
                            bank_id |-> bank_id]
       ELSE /\ UNCHANGED bankVars
            /\ response' = [op |-> "delete_question_bank", status |-> 404,
                            bank_id |-> bank_id]
    /\ UNCHANGED <<question_usage, now, sessionVars>>


(***************************************************************************)
(* DatabaseManager.update_question_usage: INSERT OR REPLACE on             *)
(* UNIQUE(question_id, user_ip), the counters read back by subqueries.     *)
(***************************************************************************)
UsageRows(usage, question_id, user_ip) ==
    {u \in usage : u.question_id = question_id /\ u.user_ip = user_ip}

\* COALESCE((SELECT col FROM question_usage WHERE ...), 0)
UsageCount(usage, question_id, user_ip, col) ==
    IF UsageRows(usage, question_id, user_ip) = {} THEN 0
    ELSE (CHOOSE u \in UsageRows(usage, question_id, user_ip) : TRUE)[col]

UsageRowNoIncrement(usage, question_id, user_ip, is_correct, ts) ==
    [question_id |-> question_id, user_ip |-> user_ip,
     times_used |-> 1, last_used |-> ts,
     correct_count |-> IF is_correct THEN 1 ELSE 0,
     incorrect_count |-> IF is_correct THEN 0 ELSE 1]

\* the answer flag bound to both counter parameters
UsageRowMiscounted(usage, question_id, user_ip, is_correct, ts) ==
    [question_id |-> question_id, user_ip |-> user_ip,
     times_used |-> UsageCount(usage, question_id, user_ip, "times_used") + 1,
     last_used |-> ts,
     correct_count |-> UsageCount(usage, question_id, user_ip, "correct_count")
                         + (IF is_correct THEN 1 ELSE 0),
     incorrect_count |-> UsageCount(usage, question_id, user_ip, "incorrect_count")
                           + (IF is_correct THEN 1 ELSE 0)]

UsageRow(usage, question_id, user_ip, is_correct, ts) ==
    [question_id |-> question_id, user_ip |-> user_ip,
     times_used |-> UsageCount(usage, question_id, user_ip, "times_used") + 1,
     last_used |-> ts,
     correct_count |-> UsageCount(usage, question_id, user_ip, "correct_count")
                         + (IF is_correct THEN 1 ELSE 0),
     incorrect_count |-> UsageCount(usage, question_id, user_ip, "incorrect_count")
                           + (IF is_correct THEN 0 ELSE 1)]

\* the upsert keyed by the question alone
update_question_usage_shared(usage, question_id, user_ip, is_correct, ts) ==
    {u \in usage : u.question_id # question_id}
        \cup {UsageRow(usage, question_id, user_ip, is_correct, ts)}

update_question_usage(usage, question_id, user_ip, is_correct, ts) ==
    (usage \ UsageRows(usage, question_id, user_ip))
        \cup {UsageRow(usage, question_id, user_ip, is_correct, ts)}

(***************************************************************************)
(* SQL helpers: LIKE, and ORDER BY key, RANDOM() LIMIT k.                  *)
(***************************************************************************)
Lower(c) == CASE c = "A" -> "a" [] c = "B" -> "b" [] c = "C" -> "c" [] OTHER -> c

\* SQLite LIKE: % any run, _ any one character, ASCII letters fold case
RECURSIVE Like(_, _)
Like(text, pat) ==
    IF pat = <<>> THEN text = <<>>
    ELSE IF Head(pat) = "%"
         THEN \E k \in 0..Len(text) : Like(SubSeq(text, k + 1, Len(text)), Tail(pat))
         ELSE /\ text # <<>>
              /\ Head(pat) = "_" \/ Lower(Head(pat)) = Lower(Head(text))
              /\ Like(Tail(text), Tail(pat))

\* lexicographic order on the two-column sort key
KeyLeq(a, b) == a[1] < b[1] \/ (a[1] = b[1] /\ a[2] <= b[2])

FirstRowsAny(keyed) == keyed

\* the rows that may come first: smallest key, RANDOM() deciding among equals
FirstRows(keyed) == {m \in keyed : \A x \in keyed : KeyLeq(m.key, x.key)}

\* every sequence the ordered query can return; a negative LIMIT is no limit
RECURSIVE OrderByLimit(_, _)
OrderByLimit(keyed, k) ==
    IF k = 0 \/ keyed = {} THEN {<<>>}
    ELSE UNION {{<<m.row>> \o t : t \in OrderByLimit(keyed \ {m}, k - 1)}
                : m \in FirstRows(keyed)}

(***************************************************************************)
(* DatabaseManager.get_questions_by_criteria                               *)
(***************************************************************************)
\* a dict key that is present with a truthy value
Truthy(criteria, key, empty) == key \in DOMAIN criteria /\ criteria[key] # empty

\* questions LEFT JOIN question_usage ON question_id AND user_ip, with the
\* COALESCE defaults of the SELECT list
UsageJoin(qs, usage, user_ip) ==
    {q @@ [times_used |-> u.times_used, last_used |-> u.last_used]
        : <<q, u>> \in {p \in qs \X usage : /\ p[1].question_id = p[2].question_id
                                             /\ p[2].user_ip = user_ip}}
    \cup {q @@ [times_used |-> 0, last_used |-> 0]
            : q \in {q \in qs : UsageRows(usage, q.question_id, user_ip) = {}}}

DifficultyFilterLiteral(criteria, row) ==
    Truthy(criteria, "difficulty", "") => row.difficulty = criteria.difficulty

DifficultyFilter(criteria, row) ==
    (Truthy(criteria, "difficulty", "") /\ criteria.difficulty # "mixed")
        => row.difficulty = criteria.difficulty

CategoryFilter(criteria, row) ==
    Truthy(criteria, "categories", <<>>) => row.category \in Range(criteria.categories)

KeywordFilter(criteria, row) ==
    Truthy(criteria, "keywords", <<>>)
        => Like(row.keywords_json, <<"%">> \o criteria.keywords \o <<"%">>)

ExcludeFilterOff(criteria, row) == TRUE

ExcludeFilter(criteria, row) ==
    Truthy(criteria, "exclude_question_ids", <<>>)
        => row.question_id \notin Range(criteria.exclude_question_ids)

Where(criteria, row) ==
    /\ DifficultyFilter(criteria, row)
    /\ CategoryFilter(criteria, row)
    /\ KeywordFilter(criteria, row)
    /\ ExcludeFilter(criteria, row)

\* ORDER BY times_used ASC, last_used ASC
UsageKeyDesc(row) == <<0 - row.times_used, row.last_used>>

UsageKey(row) == <<row.times_used, row.last_used>>

EffectiveIp(user_ip) == IF user_ip = "" THEN "anonymous" ELSE user_ip

\* the set of sequences the call can return
get_questions_by_criteria(qs, usage, criteria, user_ip, limit) ==
    OrderByLimit({[row |-> r, key |-> UsageKey(r)]
                    : r \in {j \in UsageJoin(qs, usage, EffectiveIp(user_ip))
                               : Where(criteria, j)}},
                 limit)

(***************************************************************************)
(* DatabaseManager.get_failed_questions                                    *)
(***************************************************************************)
FailedJoinAnyIp(qs, usage, user_ip) ==
    {q @@ [incorrect_count |-> u.incorrect_count, last_used |-> u.last_used]
        : <<q, u>> \in {p \in qs \X usage : /\ p[1].question_id = p[2].question_id
                                             /\ p[2].incorrect_count > 0}}

\* questions JOIN question_usage WHERE user_ip = ? AND incorrect_count > 0
FailedJoin(qs, usage, user_ip) ==
    {q @@ [incorrect_count |-> u.incorrect_count, last_used |-> u.last_used]
        : <<q, u>> \in {p \in qs \X usage : /\ p[1].question_id = p[2].question_id
                                             /\ p[2].user_ip = user_ip
                                             /\ p[2].incorrect_count > 0}}

\* ORDER BY incorrect_count DESC, last_used ASC
FailedKey(row) == <<0 - row.incorrect_count, row.last_used>>

get_failed_questions(qs, usage, user_ip, limit) ==
    OrderByLimit({[row |-> r, key |-> FailedKey(r)]
                    : r \in FailedJoin(qs, usage, user_ip)},
                 limit)


(***************************************************************************)
(* The selector as the store's callers drive it: usage upserts, the clock, *)
(* and the two selection queries.                                          *)
(***************************************************************************)
NoCriteria == [k \in {} |-> ""]

\* criteria dicts as the callers build them: each filter alone, absent or
\* empty, and combined
Criteria ==
    { NoCriteria,
      [difficulty |-> "mixed", categories |-> <<>>],
      [difficulty |-> "easy"],
      [categories |-> <<"catA">>, exclude_question_ids |-> <<"q1">>],
      [keywords |-> <<"b">>],
      [difficulty |-> "hard", categories |-> <<"catB">>] }

\* the (question, identity) pairs whose attempts are recorded: X attempts
\* every question, the anonymous identity only q1
UsageInputs == (QIds \X {"X"}) \cup {<<"q1", "anonymous">>}

TotalUsed(usage) ==
    LET RECURSIVE Sum(_)
        Sum(S) == IF S = {} THEN 0
                  ELSE LET u == CHOOSE u \in S : TRUE
                       IN  u.times_used + Sum(S \ {u})
    IN  Sum(usage)

Tick ==
    /\ now < MaxClock
    /\ now' = now + 1
    /\ UNCHANGED <<bankVars, question_usage, sessionVars, response>>

UpsertUsage(question_id, user_ip, is_correct) ==
    /\ TotalUsed(question_usage) < MaxUpdates
    /\ question_usage' =
           update_question_usage(question_usage, question_id, user_ip, is_correct, now)
    /\ response' = [op |-> "update_question_usage", question_id |-> question_id,
                    user_ip |-> user_ip, is_correct |-> is_correct]
    /\ UNCHANGED <<bankVars, now, sessionVars>>

SelectByCriteria(criteria, user_ip, limit) ==
    /\ \E rows \in get_questions_by_criteria(questions, question_usage,
                                             criteria, user_ip, limit) :
           response' = [op |-> "get_questions_by_criteria", criteria |-> criteria,
                        user_ip |-> user_ip, limit |-> limit, rows |-> rows]
    /\ UNCHANGED <<bankVars, question_usage, now, sessionVars>>

SelectFailed(user_ip, limit) ==
    /\ \E rows \in get_failed_questions(questions, question_usage, user_ip, limit) :
           response' = [op |-> "get_failed_questions", user_ip |-> user_ip,
                        limit |-> limit, rows |-> rows]
    /\ UNCHANGED <<bankVars, question_usage, now, sessionVars>>

InitStore ==
    /\ questions = StartupStore.questions
    /\ question_banks = StartupStore.question_banks
    /\ question_usage = {}
    /\ dynamic_tests = {}
    /\ test_sessions = {}
    /\ session_progress = {}
    /\ user_answers = {}
    /\ test_stats = {}
    /\ tests_cache = {}
    /\ now = 1
    /\ ids_issued = 0
    /\ inflight = [r \in Requests |-> Idle]
    /\ response = [op |-> "none"]

NextSel ==
    \/ Tick
    \/ \E p \in UsageInputs, c \in BOOLEAN : UpsertUsage(p[1], p[2], c)
    \/ \E cr \in Criteria, ip \in CallerIps, k \in 0..MaxLimit :
           SelectByCriteria(cr, ip, k)
    \/ \E ip \in IPs, k \in 0..MaxLimit : SelectFailed(ip, k)

SpecSel == InitStore /\ [][NextSel]_vars

NextBank ==
    \/ \E d \in BankDocs : upload_question_bank(d)
    \/ \E b \in BankIds : delete_question_bank(b)

SpecBank == InitStore /\ [][NextBank]_vars


(***************************************************************************)
(* Store methods the handlers call that DatabaseManager (database.py) does *)
(* not define: modelled from the data model of the specification.  An      *)
(* Answer is one record per (session, question), written on submission     *)
(* and updated with the grading detail at completion; a generated test is  *)
(* a stored sequence of question identifiers.  A NULL column is the empty  *)
(* set, a value v the set {v}.                                             *)
(***************************************************************************)
\* dict.get(key, default)
Get(d, key, default) == IF key \in DOMAIN d THEN d[key] ELSE default

\* id INTEGER PRIMARY KEY AUTOINCREMENT: the rowid of the next inserted row,
\* above every stored one
NextRowId(ua) ==
    LET ids == {0} \cup {a.id : a \in ua}
    IN  1 + CHOOSE m \in ids : \A i \in ids : m >= i

\* INSERT OR REPLACE naming no id: there is no UNIQUE constraint to conflict
\* with, so the row is always added
save_answer(ua, session_id, answer_data) ==
    ua \cup {[id |-> NextRowId(ua), session_id |-> session_id,
              question_id |-> answer_data.question_id,
              selected_answer |-> {answer_data.selected_answer},
              correct_answer |-> {answer_data.correct_answer},
              is_correct |-> answer_data.is_correct,
              points_available |-> Get(answer_data, "points_available", 1),
              points_earned |-> Get(answer_data, "points_earned", 0)]}

AnswerRows(ua, session_id, question_id) ==
    {a \in ua : a.session_id = session_id /\ a.question_id = question_id}

save_user_answer_basic(ua, session_id, question_id, selected_answer) ==
    IF AnswerRows(ua, session_id, question_id) # {}
    THEN {IF a \in AnswerRows(ua, session_id, question_id)
          THEN [a EXCEPT !.selected_answer = {selected_answer}] ELSE a : a \in ua}
    ELSE ua \cup {[id |-> NextRowId(ua),
                   session_id |-> session_id, question_id |-> question_id,
                   selected_answer |-> {selected_answer}, correct_answer |-> {},
                   \* the columns a submission does not write take the
                   \* DEFAULTs of the table: is_correct 0, points 1 and 1
                   is_correct |-> FALSE, points_available |-> 1,
                   points_earned |-> 1]}

update_answer_details(ua, session_id, question_id, correct_answer, is_correct, points_available, points_earned) ==
    IF AnswerRows(ua, session_id, question_id) # {}
    THEN {IF a \in AnswerRows(ua, session_id, question_id)
          THEN [a EXCEPT !.correct_answer = {correct_answer},
                         !.is_correct = is_correct,
                         !.points_available = points_available,
                         !.points_earned = points_earned]
          ELSE a : a \in ua}
    ELSE ua \cup {[id |-> NextRowId(ua),
                   session_id |-> session_id, question_id |-> question_id,
                   selected_answer |-> {}, correct_answer |-> {correct_answer},
                   is_correct |-> is_correct,
                   points_available |-> points_available,
                   points_earned |-> points_earned]}

\* the stored questions named by a sequence of identifiers, in its order
RECURSIVE QuestionsOf(_, _)
QuestionsOf(qs, ids) ==
    IF ids = <<>> THEN <<>>
    ELSE LET rows == {q \in qs : q.question_id = Head(ids)}
         IN  (IF rows = {} THEN <<>> ELSE <<CHOOSE q \in rows : TRUE>>)
                 \o QuestionsOf(qs, Tail(ids))

\* None ({}) or the test as a dict with its questions
get_dynamic_test(tests, qs, test_id) ==
    {[test_id |-> t.test_id, questions |-> QuestionsOf(qs, t.question_ids)]
        : t \in {t \in tests : t.test_id = test_id}}

\* the questions whose persisted Answer in the session has is_correct = false
get_failed_questions_from_session(ua, qs, session_id, limit) ==
    OrderByLimit({[row |-> q, key |-> <<0, 0>>]
                    : q \in {q \in qs : \E a \in ua : /\ a.session_id = session_id
                                                     /\ a.question_id = q.question_id
                                                     /\ ~a.is_correct}},
                 limit)

(***************************************************************************)
(* DatabaseManager: sessions, generated tests, statistics.                 *)
(***************************************************************************)
Ids(rows) == [i \in 1..Len(rows) |-> rows[i].question_id]

EmptyDict == [k \in {} |-> 0]

\* the two INSERTs of create_session
create_session_row(session_data) ==
    [session_id |-> session_data.session_id, test_id |-> session_data.test_id,
     user_ip |-> session_data.user_ip,
     total_questions |-> session_data.total_questions,
     correct_answers |-> 0, total_points |-> 0, points_earned |-> 0,
     score_percentage |-> Rat(0, 1), status |-> "active"]

create_session_progress(session_data) ==
    [session_id |-> session_data.session_id, current_question_index |-> 0,
     questions_data |-> session_data.question_ids, answers_data |-> EmptyDict]

\* test_sessions LEFT JOIN session_progress, at most one row
get_session(sessions, progress, session_id) ==
    {[session |-> s,
      answers_data |-> IF \E p \in progress : p.session_id = session_id
                       THEN (CHOOSE p \in progress : p.session_id = session_id).answers_data
                       ELSE EmptyDict,
      current_question_index |->
                       IF \E p \in progress : p.session_id = session_id
                       THEN (CHOOSE p \in progress : p.session_id = session_id).current_question_index
                       ELSE 0]
        : s \in {s \in sessions : s.session_id = session_id}}

update_session_progress(progress, session_id, current_question_index, answers_data) ==
    {IF p.session_id = session_id
     THEN [p EXCEPT !.current_question_index = current_question_index,
                    !.answers_data = answers_data]
     ELSE p : p \in progress}

\* UPDATE test_sessions SET ..., status = 'completed' WHERE session_id = ?
complete_session(sessions, session_id, results) ==
    {IF s.session_id = session_id
     THEN [s EXCEPT !.correct_answers = results.correct_answers,
                    !.total_points = results.total_points,
                    !.points_earned = results.points_earned,
                    !.score_percentage = results.score_percentage,
                    !.status = "completed"]
     ELSE s : s \in sessions}

\* CHECK(test_type IN (...)) of table dynamic_tests
TestTypeAllowed(test_type) ==
    test_type \in {"random", "category", "difficulty", "failed_questions"}

\* the INSERT INTO dynamic_tests: a row the CHECK refuses raises IntegrityError
save_dynamic_test(tests, test_data) ==
    IF TestTypeAllowed(test_data.test_type)
    THEN [raised |-> FALSE,
          tests |-> tests \cup {[test_id |-> test_data.test_id,
                                 test_type |-> test_data.test_type,
                                 criteria |-> test_data.criteria,
                                 question_ids |-> test_data.question_ids,
                                 user_ip |-> test_data.user_ip]}]
    ELSE [raised |-> TRUE, tests |-> tests]

\* the running average weighted by the new count instead of the old one
update_test_stats_miscounted(stats, test_id, score) ==
    IF \E st \in stats : st.test_id = test_id
    THEN {IF st.test_id = test_id
          THEN LET times_taken == st.times_taken + 1
               IN  [st EXCEPT
                      !.times_taken = times_taken,
                      !.average_score =
                          RatOver(RatAdd(RatTimes(st.average_score, times_taken),
                                         score), times_taken),
                      !.best_score = RatMax(st.best_score, score),
                      !.worst_score = RatMin(st.worst_score, score)]
          ELSE st : st \in stats}
    ELSE stats \cup {[test_id |-> test_id, times_taken |-> 1, average_score |-> score,
                      best_score |-> score, worst_score |-> score]}

update_test_stats(stats, test_id, score) ==
    IF \E st \in stats : st.test_id = test_id
    THEN {IF st.test_id = test_id
          THEN LET times_taken == st.times_taken + 1
               IN  [st EXCEPT
                      !.times_taken = times_taken,
                      !.average_score =
                          RatOver(RatAdd(RatTimes(st.average_score, times_taken - 1),
                                         score), times_taken),
                      !.best_score = RatMax(st.best_score, score),
                      !.worst_score = RatMin(st.worst_score, score)]
          ELSE st : st \in stats}
    ELSE stats \cup {[test_id |-> test_id, times_taken |-> 1, average_score |-> score,
                      best_score |-> score, worst_score |-> score]}

\* update_test_stats between its two statements: the SELECT has returned
\* current_stats (no row or one), and the UPDATE or INSERT chosen from it runs
\* against the table as it is by then; an INSERT of a test_id that is stored
\* violates the PRIMARY KEY and raises
write_test_stats(stats, current_stats, test_id, score) ==
    IF current_stats # {}
    THEN LET cur == CHOOSE st \in current_stats : TRUE
             times_taken == cur.times_taken + 1
         IN  [raised |-> FALSE,
              stats |->
                {IF st.test_id = test_id
                 THEN [st EXCEPT
                         !.times_taken = times_taken,
                         !.average_score =
                             RatOver(RatAdd(RatTimes(cur.average_score,
                                                     times_taken - 1),
                                            score), times_taken),
                         !.best_score = RatMax(cur.best_score, score),
                         !.worst_score = RatMin(cur.worst_score, score)]
                 ELSE st : st \in stats}]
    ELSE IF \E st \in stats : st.test_id = test_id
    THEN [raised |-> TRUE, stats |-> stats]
    ELSE [raised |-> FALSE,
          stats |-> stats \cup {[test_id |-> test_id, times_taken |-> 1,
                                 average_score |-> score, best_score |-> score,
                                 worst_score |-> score]}]

(***************************************************************************)
(* main.py: identifiers, program constants.                                *)
(***************************************************************************)
DefaultPassingGrade == 70

DefaultPoints == 1

MinNumQuestions == 5

MaxNumQuestions == 100

DefaultNumQuestions == 50

DefaultRandomQuestions == 10

\* generate_session_id: a fresh uuid
SessionId(n) == "s" \o ToString(n)

\* f"dyn_{test_type}_{timestamp}_{uuid}": fresh for every generated test
NewTestId(tests, test_type) ==
    "dyn_" \o test_type \o "_" \o ToString(Cardinality(tests) + 1)

(***************************************************************************)
(* main.py: generate_dynamic_test (POST /api/generate-test).  The result   *)
(* is the set of outcomes the RANDOM() tie-breaks of the queries allow.    *)
(***************************************************************************)
\* the range test with its lower limit left out
CountAboveRange(num_questions) == num_questions > MaxNumQuestions

\* num_questions < 5 or num_questions > 100
CountOutOfRange(num_questions) ==
    num_questions < MinNumQuestions \/ num_questions > MaxNumQuestions

GenerateOutcome(test_type, criteria, num_questions, candidates) ==
    {IF rows = <<>>
     THEN [status |-> 400,
           detail |-> "No questions available matching the specified criteria"]
     ELSE [status |-> 200, test_type |-> test_type, criteria |-> criteria,
           questions |-> rows, num_questions |-> Min(num_questions, Len(rows))]
        : rows \in candidates}

generate_dynamic_test_outcomes(qs, usage, ua, user_ip, test_request) ==
    LET test_type == Get(test_request, "test_type", "random")
        num_questions == Get(test_request, "num_questions", DefaultNumQuestions)
        config == Get(test_request, "config", EmptyDict)
        categories == Get(config, "categories", <<>>)
        difficulty == Get(config, "difficulty", "medium")
        source_session_id == Get(config, "source_session_id", "")
        ByCriteria(criteria) ==
            GenerateOutcome(test_type, criteria, num_questions,
                get_questions_by_criteria(qs, usage, criteria, user_ip, num_questions))
    IN  IF CountOutOfRange(num_questions)
        THEN {[status |-> 400,
               detail |-> "Number of questions must be between 5 and 100"]}
        ELSE CASE test_type = "random" -> ByCriteria(NoCriteria)
               [] test_type = "category" ->
                    IF categories = <<>>
                    THEN {[status |-> 400,
                           detail |-> "At least one category must be selected"]}
                    ELSE ByCriteria([categories |-> categories])
               [] test_type = "difficulty" -> ByCriteria([difficulty |-> difficulty])
               [] test_type = "failed_questions" ->
                    UNION {IF failed_questions = <<>>
                           THEN {[status |-> 400,
                                  detail |-> "No failed questions found"]}
                           ELSE GenerateOutcome(test_type,
                                    [question_ids |-> Ids(failed_questions)],
                                    num_questions,
                                    \* lines 1189-1191
                                    get_failed_questions(qs, usage, user_ip,
                                                         num_questions))
                             : failed_questions \in
                                 IF source_session_id = ""
                                 THEN get_failed_questions(qs, usage, user_ip,
                                                           num_questions)
                                 ELSE get_failed_questions_from_session(
                                          ua, qs, source_session_id, num_questions)}
               [] OTHER -> {[status |-> 400, detail |-> "Invalid test type"]}

generate_dynamic_test(user_ip, test_request) ==
    /\ \E out \in generate_dynamic_test_outcomes(questions, question_usage,
                                                 user_answers, user_ip, test_request) :
          IF out.status = 200
          THEN LET test_id == NewTestId(dynamic_tests, out.test_type)
                   session_id == SessionId(ids_issued + 1)
                   session_data == [session_id |-> session_id, test_id |-> test_id,
                                    user_ip |-> user_ip,
                                    total_questions |-> out.num_questions,
                                    question_ids |-> Ids(out.questions)]
               IN  /\ dynamic_tests' =
                          save_dynamic_test(dynamic_tests,
                              [test_id |-> test_id, test_type |-> out.test_type,
                               criteria |-> out.criteria,
                               question_ids |-> Ids(out.questions),
                               user_ip |-> user_ip]).tests
                   /\ test_sessions' = test_sessions \cup {create_session_row(session_data)}
                   /\ session_progress' =
                          session_progress \cup {create_session_progress(session_data)}
                   /\ ids_issued' = ids_issued + 1
                   /\ response' = [op |-> "generate_dynamic_test", status |-> 200,
                                   test_request |-> test_request, user_ip |-> user_ip,
                                   test_id |-> test_id, session_id |-> session_id,
                                   num_questions |-> out.num_questions]
                   /\ UNCHANGED <<user_answers, test_stats, tests_cache, inflight>>
          ELSE /\ response' = [op |-> "generate_dynamic_test", status |-> out.status,
                               test_request |-> test_request, user_ip |-> user_ip,
                               detail |-> out.detail]
               /\ UNCHANGED sessionVars
    /\ UNCHANGED <<bankVars, question_usage, now>>

(***************************************************************************)
(* main.py: generate_dynamic_random_test and start_session                 *)
(* (POST /api/sessions).                                                   *)
(***************************************************************************)
\* the QuestionData built from a selected row
QuestionData(q_data) ==
    [id |-> q_data.question_id, correct_answer |-> q_data.correct_answer,
     difficulty |-> q_data.difficulty, category |-> q_data.category,
     points |-> DefaultPoints]

generate_dynamic_random_test(qs, usage, ua, tests, config) ==
    LET num_questions == Get(config, "num_questions", DefaultRandomQuestions)
        difficulty == Get(config, "difficulty", "mixed")
        categories == Get(config, "categories", <<>>)
        failed_questions_only == Get(config, "failed_questions_only", FALSE)
        source_session_id == Get(config, "source_session_id", "")
        user_ip == Get(config, "user_ip", "anonymous")
        \* categories None is the empty sequence
        criteria == [difficulty |-> difficulty, categories |-> categories]
        test_type == IF failed_questions_only THEN "failed"
                     ELSE IF categories # <<>> THEN "category"
                     ELSE IF difficulty # "mixed" THEN "difficulty"
                     ELSE "random"
        test_id == NewTestId(tests, test_type)
        found == IF failed_questions_only /\ source_session_id # ""
                 THEN get_failed_questions_from_session(ua, qs, source_session_id,
                                                        num_questions)
                 ELSE IF failed_questions_only
                 THEN get_failed_questions(qs, usage, user_ip, num_questions)
                 ELSE get_questions_by_criteria(qs, usage, criteria, user_ip,
                                                num_questions)
    IN  {IF questions_data = <<>>
         THEN [status |-> 404,
               detail |-> "No questions available for random test generation"]
         ELSE IF \E i \in 1..Len(questions_data) : ~questions_data[i].has_source
         THEN [status |-> 500, detail |-> "ValidationError"]
         ELSE LET saved == save_dynamic_test(tests,
                               [test_id |-> test_id, test_type |-> test_type,
                                criteria |-> criteria,
                                question_ids |-> Ids(questions_data),
                                user_ip |-> user_ip])
              IN  IF saved.raised
                  THEN [status |-> 500, detail |-> "IntegrityError"]
                  ELSE [status |-> 200, tests |-> saved.tests,
                        test_schema |->
                            [test_id |-> test_id,
                             passing_grade |-> DefaultPassingGrade,
                             questions |-> [i \in 1..Len(questions_data) |->
                                               QuestionData(questions_data[i])]]]
            : questions_data \in found}

\* the session created once the test schema is known
StartSessionFor(client_ip, request_data, test_schema) ==
    LET session_id == SessionId(ids_issued + 1)
        session_data ==
            [session_id |-> session_id, test_id |-> test_schema.test_id,
             user_ip |-> IF request_data.user_ip # "" THEN request_data.user_ip
                         ELSE client_ip,
             total_questions |-> Len(test_schema.questions),
             question_ids |-> [i \in 1..Len(test_schema.questions) |->
                                  test_schema.questions[i].id]]
    IN  /\ test_sessions' = test_sessions \cup {create_session_row(session_data)}
        /\ session_progress' =
               session_progress \cup {create_session_progress(session_data)}
        /\ ids_issued' = ids_issued + 1
        /\ response' = [op |-> "start_session", status |-> 200,
                        request_data |-> request_data,
                        session_id |-> session_id,
                        test_id |-> test_schema.test_id,
                        total_questions |-> Len(test_schema.questions)]

start_session(client_ip, request_data) ==
    /\ IF \/ request_data.test_id \in {"random", "failed_questions"}
          \/ request_data.is_random_test
       THEN \E out \in generate_dynamic_random_test(questions, question_usage,
                              user_answers, dynamic_tests, request_data.random_config) :
                  IF out.status = 200
                  THEN /\ dynamic_tests' = out.tests
                       /\ tests_cache' = tests_cache \cup {out.test_schema}
                       /\ StartSessionFor(client_ip, request_data, out.test_schema)
                       /\ UNCHANGED <<user_answers, test_stats, inflight>>
                  ELSE /\ response' = [op |-> "start_session", status |-> out.status,
                                       request_data |-> request_data,
                                       detail |-> out.detail]
                       /\ UNCHANGED sessionVars
       ELSE IF \A t \in tests_cache : t.test_id # request_data.test_id
       THEN /\ response' = [op |-> "start_session", status |-> 404,
                            request_data |-> request_data,
                            detail |-> "Test not found"]
            /\ UNCHANGED sessionVars
       ELSE /\ StartSessionFor(client_ip, request_data,
                  CHOOSE t \in tests_cache : t.test_id = request_data.test_id)
            /\ UNCHANGED <<dynamic_tests, user_answers, test_stats, tests_cache, inflight>>
    /\ UNCHANGED <<bankVars, question_usage, now>>

(***************************************************************************)
(* main.py: submit_answer (POST /api/sessions/{id}/answers).               *)
(***************************************************************************)
\* the number of answers held in the progress rows
TotalSubmitted(progress) ==
    LET RECURSIVE Sum(_)
        Sum(S) == IF S = {} THEN 0
                  ELSE LET p == CHOOSE p \in S : TRUE
                       IN  Cardinality(DOMAIN p.answers_data) + Sum(S \ {p})
    IN  Sum(progress)

submit_answer(session_id, answer_data) ==
    /\ TotalSubmitted(session_progress) < MaxAnswers
    /\ LET found == get_session(test_sessions, session_progress, session_id)
       IN  IF found = {}
           THEN /\ response' = [op |-> "submit_answer", status |-> 404,
                                session_id |-> session_id]
                /\ UNCHANGED <<session_progress, user_answers>>
           ELSE LET session_data == CHOOSE d \in found : TRUE
                    answers ==
                        [k \in DOMAIN session_data.answers_data
                               \cup {answer_data.question_id} |->
                            IF k = answer_data.question_id
                            THEN answer_data.selected_answer
                            ELSE session_data.answers_data[k]]
                IN  /\ session_progress' =
                           update_session_progress(session_progress, session_id,
                               session_data.current_question_index, answers)
                    /\ user_answers' =
                           save_user_answer_basic(user_answers, session_id,
                               answer_data.question_id, answer_data.selected_answer)
                    /\ response' = [op |-> "submit_answer", status |-> 200,
                                    session_id |-> session_id,
                                    question_id |-> answer_data.question_id]
    /\ UNCHANGED <<bankVars, question_usage, now, dynamic_tests, test_sessions,
                   test_stats, tests_cache, ids_issued, inflight>>

(***************************************************************************)
(* main.py: complete_test (POST /api/sessions/{id}/complete).              *)
(***************************************************************************)
\* a question of a stored test as the grading loop reads it (a dict without
\* a 'points' key)
DictQuestion(q) ==
    [id |-> q.question_id, correct_answer |-> q.correct_answer,
     difficulty |-> q.difficulty, category |-> q.category,
     points |-> DefaultPoints]

\* answers_data.get(q_id, {}).get('selected_answer'): None is the empty set
SelectedAnswer(answers_data, q_id) ==
    IF q_id \in DOMAIN answers_data THEN {answers_data[q_id]} ELSE {}

IsCorrectOrUnanswered(selected_answer, correct_answer) ==
    selected_answer \subseteq {correct_answer}

\* is_correct = selected_answer == correct_answer
IsCorrect(selected_answer, correct_answer) == selected_answer = {correct_answer}

\* one iteration of the grading loop: the AnswerDetail of the question
GradeQuestion(answers_data, question) ==
    LET selected_answer == SelectedAnswer(answers_data, question.id)
        is_correct == IsCorrect(selected_answer, question.correct_answer)
    IN  [question_id |-> question.id,
         selected_answer |-> IF selected_answer = {} THEN -1
                             ELSE CHOOSE a \in selected_answer : TRUE,
         correct_answer |-> question.correct_answer,
         is_correct |-> is_correct,
         points_available |-> question.points,
         points_earned |-> IF is_correct THEN question.points ELSE 0,
         category |-> question.category,
         difficulty |-> question.difficulty]

\* the loop adding the points of a question to those its record already has
RECURSIVE SaveDetailsAdding(_, _, _)
SaveDetailsAdding(ua, session_id, details) ==
    IF details = <<>> THEN ua
    ELSE LET d == Head(details)
             rows == AnswerRows(ua, session_id, d.question_id)
             had == IF rows = {} THEN 0 ELSE (CHOOSE a \in rows : TRUE).points_earned
         IN  SaveDetailsAdding(
                 update_answer_details(ua, session_id, d.question_id, d.correct_answer,
                     d.is_correct, d.points_available, d.points_earned + had),
                 session_id, Tail(details))

\* the update_answer_details calls of the loop, in order
RECURSIVE SaveDetails(_, _, _)
SaveDetails(ua, session_id, details) ==
    IF details = <<>> THEN ua
    ELSE SaveDetails(update_answer_details(ua, session_id, Head(details).question_id,
                         Head(details).correct_answer, Head(details).is_correct,
                         Head(details).points_available, Head(details).points_earned),
                     session_id, Tail(details))

\* category_stats / difficulty_stats after the loop
BucketStats(details, field) ==
    [b \in {details[i][field] : i \in 1..Len(details)} |->
        [correct |-> Cardinality({i \in 1..Len(details) :
                                     details[i][field] = b /\ details[i].is_correct}),
         total |-> Cardinality({i \in 1..Len(details) : details[i][field] = b})]]

\* SELECT SUM(is_correct), SUM(points_earned) FROM user_answers WHERE session_id = ?
SumAnswers(ua, session_id) ==
    LET RECURSIVE Sum(_)
        Sum(S) == IF S = {} THEN [is_correct |-> 0, points_earned |-> 0]
                  ELSE LET a == CHOOSE a \in S : TRUE
                           rest == Sum(S \ {a})
                       IN  [is_correct |-> rest.is_correct
                                             + (IF a.is_correct THEN 1 ELSE 0),
                            points_earned |-> rest.points_earned + a.points_earned]
    IN  Sum({a \in ua : a.session_id = session_id})

\* (points_earned / total_points * 100) if total_points > 0 else 0
Percentage(points_earned, total_points) ==
    IF total_points > 0 THEN Rat(points_earned * 100, total_points) ELSE Rat(0, 1)

\* the test of a session: the stored generated test, else the cached schema
TestData(tests, cache, qs, test_id) ==
    LET test_data == get_dynamic_test(tests, qs, test_id)
    IN  IF test_data # {}
        THEN {[test_id |-> t.test_id, passing_grade |-> DefaultPassingGrade,
               questions |-> [i \in 1..Len(t.questions) |->
                                 DictQuestion(t.questions[i])]] : t \in test_data}
        ELSE {t \in cache : t.test_id = test_id}

TimesTaken(stats, test_id) ==
    IF \E st \in stats : st.test_id = test_id
    THEN (CHOOSE st \in stats : st.test_id = test_id).times_taken
    ELSE 0

\* final_answers of the request body laid over the persisted answers
TrustedAnswers(session_data, request_data) ==
    LET final_answers == Get(request_data, "final_answers", EmptyDict)
    IN  [q \in DOMAIN session_data.answers_data \cup DOMAIN final_answers |->
            IF q \in DOMAIN final_answers THEN final_answers[q]
            ELSE session_data.answers_data[q]]

\* answers_data = session_data.get('answers_data', {}): request_data is not read
GradedAnswers(session_data, request_data) == session_data.answers_data

\* the results of the handler before it stores them (main.py 903-986)
Results(ua, session_id, session_data, test_data, request_data) ==
    LET answers_data == GradedAnswers(session_data, request_data)
        detailed_answers ==
            [i \in 1..Len(test_data.questions) |->
                GradeQuestion(answers_data, test_data.questions[i])]
        total_points ==
            SeqSum([i \in 1..Len(detailed_answers) |->
                       detailed_answers[i].points_available])
        graded == SaveDetails(ua, session_id, detailed_answers)
        db_result == SumAnswers(graded, session_id)
        percentage == Percentage(db_result.points_earned, total_points)
    IN  [detailed_answers |-> detailed_answers, total_points |-> total_points,
         graded |-> graded, db_result |-> db_result, percentage |-> percentage,
         passed |-> RatGeq(percentage, Rat(test_data.passing_grade, 1))]

complete_test(session_id, request_data) ==
    LET found == get_session(test_sessions, session_progress, session_id)
    IN  /\ \A d \in found : TimesTaken(test_stats, d.session.test_id) < MaxTaken
        /\ IF found = {}
           THEN /\ response' = [op |-> "complete_test", status |-> 404,
                                session_id |-> session_id,
                                detail |-> "Session not found"]
                /\ UNCHANGED <<user_answers, test_sessions, test_stats>>
           ELSE LET session_data == CHOOSE d \in found : TRUE
                    tests_found == TestData(dynamic_tests, tests_cache, questions,
                                            session_data.session.test_id)
                IN  IF tests_found = {}
                    THEN /\ response' = [op |-> "complete_test", status |-> 404,
                                         session_id |-> session_id,
                                         detail |-> "Test not found"]
                         /\ UNCHANGED <<user_answers, test_sessions, test_stats>>
                    ELSE LET test_data == CHOOSE t \in tests_found : TRUE
                             results == Results(user_answers, session_id, session_data,
                                                test_data, request_data)
                             detailed_answers == results.detailed_answers
                             total_points == results.total_points
                             graded == results.graded
                             db_result == results.db_result
                             percentage == results.percentage
                             passed == results.passed
                         IN  /\ user_answers' = graded
                             /\ test_sessions' =
                                    complete_session(test_sessions, session_id,
                                        [correct_answers |-> db_result.is_correct,
                                         total_points |-> total_points,
                                         points_earned |-> db_result.points_earned,
                                         score_percentage |-> percentage])
                             /\ test_stats' = update_test_stats(test_stats,
                                                  test_data.test_id, percentage)
                             /\ response' =
                                    [op |-> "complete_test", status |-> 200,
                                     session_id |-> session_id,
                                     request_data |-> request_data,
                                     test_id |-> test_data.test_id,
                                     score |-> db_result.is_correct,
                                     total_questions |-> Len(test_data.questions),
                                     total_points |-> total_points,
                                     points_earned |-> db_result.points_earned,
                                     percentage |-> Round2(percentage),
                                     passed |-> passed,
                                     category_performance |->
                                         BucketStats(detailed_answers, "category"),
                                     difficulty_performance |->
                                         BucketStats(detailed_answers, "difficulty"),
                                     detailed_answers |-> detailed_answers]
        /\ UNCHANGED <<bankVars, question_usage, now, dynamic_tests,
                       session_progress, tests_cache, ids_issued, inflight>>

(***************************************************************************)
(* The application as its clients drive it: generating tests, starting     *)
(* sessions, submitting answers, completing, deleting banks; usage rows    *)
(* enter the store through update_question_usage.                          *)
(***************************************************************************)
Answers == {0, 1}

\* CompleteTestRequest bodies: final_answers absent, and final_answers
\* claiming the correct option of q1 and of q2
CompleteRequests ==
    { EmptyDict, [final_answers |-> [q1 |-> 0, q2 |-> 2]] }

TestRequests ==
    { [test_type |-> "difficulty", num_questions |-> MinNumQuestions,
       config |-> [difficulty |-> "easy"]],
      [test_type |-> "category", num_questions |-> MinNumQuestions,
       config |-> [categories |-> <<"catA">>]],
      [test_type |-> "random", num_questions |-> MinNumQuestions - 1,
       config |-> EmptyDict] }

SessionIds == {SessionId(n) : n \in 1..MaxSessions}

Next ==
    \/ \E r \in TestRequests : ids_issued < MaxGraded /\ generate_dynamic_test("X", r)
    \/ \E s \in SessionIds, q \in QIds, a \in Answers :
           submit_answer(s, [question_id |-> q, selected_answer |-> a])
    \/ \E s \in SessionIds, b \in CompleteRequests : complete_test(s, b)
    \/ delete_question_bank("b1")

Spec == InitStore /\ [][Next]_vars

(***************************************************************************)
(* Tests of failed questions: a first test and session, usage rows written *)
(* through update_question_usage, then tests generated from the failures.  *)
(***************************************************************************)
FailedRequests ==
    { [test_type |-> "difficulty", num_questions |-> MinNumQuestions,
       config |-> [difficulty |-> "easy"]],
      [test_type |-> "failed_questions", num_questions |-> MinNumQuestions,
       config |-> EmptyDict],
      [test_type |-> "failed_questions", num_questions |-> MinNumQuestions,
       config |-> [source_session_id |-> SessionId(1)]] }

RandomConfigs ==
    { [categories |-> <<"catB">>, user_ip |-> "X"],
      [failed_questions_only |-> TRUE, source_session_id |-> SessionId(1)] }

StartRequests ==
    {[test_id |-> "random", is_random_test |-> FALSE, random_config |-> c,
      user_ip |-> ""] : c \in RandomConfigs}
    \cup {[test_id |-> id, is_random_test |-> FALSE, random_config |-> EmptyDict,
           user_ip |-> ""]
            : id \in {t.test_id : t \in tests_cache} \cup {"unknown"}}

NextFailed ==
    \/ \E r \in FailedRequests :
           ids_issued < MaxSessions /\ generate_dynamic_test("X", r)
    \/ \E r \in StartRequests : ids_issued < MaxSessions /\ start_session("X", r)
    \/ \E q \in QIds, a \in Answers :
           submit_answer(SessionId(1), [question_id |-> q, selected_answer |-> a])
    \/ \E b \in CompleteRequests : complete_test(SessionId(1), b)
    \/ question_usage = {} /\ UpsertUsage("q3", "X", FALSE)

SpecFailed == InitStore /\ [][NextFailed]_vars

(***************************************************************************)
(* POST /api/generate-test with requests the handler accepts and requests  *)
(* it rejects, on a store whose usage rows and answers change.             *)
(***************************************************************************)
GenerateRequests ==
    { [test_type |-> "difficulty", num_questions |-> MinNumQuestions,
       config |-> [difficulty |-> "easy"]],
      [test_type |-> "random", num_questions |-> MinNumQuestions - 1,
       config |-> EmptyDict],
      [test_type |-> "random", num_questions |-> MaxNumQuestions + 1,
       config |-> EmptyDict],
      [test_type |-> "category", num_questions |-> MinNumQuestions,
       config |-> [categories |-> <<>>]],
      [test_type |-> "category", num_questions |-> MinNumQuestions,
       config |-> EmptyDict],
      [test_type |-> "keywords", num_questions |-> MinNumQuestions,
       config |-> EmptyDict],
      [test_type |-> "failed_questions", num_questions |-> MinNumQuestions,
       config |-> EmptyDict],
      [test_type |-> "failed_questions", num_questions |-> MinNumQuestions,
       config |-> [source_session_id |-> SessionId(1)]] }

NextGenerate ==
    \/ \E r \in GenerateRequests :
           ids_issued < MaxSessions /\ generate_dynamic_test("X", r)
    \/ \E a \in Answers :
           submit_answer(SessionId(1), [question_id |-> "q1", selected_answer |-> a])
    \/ \E q \in {"q1", "q3"}, c \in BOOLEAN : UpsertUsage(q, "X", c)

SpecGenerate == InitStore /\ [][NextGenerate]_vars

(***************************************************************************)
(* complete_test one store round trip at a time.  Every DatabaseManager    *)
(* method opens its own connection and commits by itself, and the handler  *)
(* awaits each of them, so requests in service interleave between the      *)
(* round trips and a failing round trip ends the request with an error     *)
(* after the earlier ones have committed.                                  *)
(***************************************************************************)
\* the round trips of the handler, in program order
StoreCalls ==
    {"get_session", "get_dynamic_test", "update_answer_details", "sum_answers",
     "complete_session", "update_test_stats", "update_test_stats_write"}

\* the request ends: what its caller receives
Finished(req, status) == [pc |-> "done", session_id |-> req.session_id, status |-> status]

\* the AnswerDetail of the i-th question, from the answers read at the start
DetailOf(req, i) == GradeQuestion(req.answers_data, req.questions[i])

\* total_points after the loop
TotalPoints(req) ==
    SeqSum([i \in 1..Len(req.questions) |-> req.questions[i].points])

\* a complete_test request arrives
BeginComplete(r, session_id) ==
    /\ inflight[r].pc = "idle"
    /\ inflight' = [inflight EXCEPT ![r] =
                       [pc |-> "get_session", session_id |-> session_id]]
    /\ UNCHANGED <<bankVars, question_usage, now, dynamic_tests, test_sessions,
                   session_progress, user_answers, test_stats, tests_cache,
                   ids_issued, response>>

\* the next round trip of the request
StepComplete(r) ==
    LET req == inflight[r]
        pc == req.pc
    IN  /\ pc \in StoreCalls
        /\ CASE pc = "get_session" ->
                  LET found == get_session(test_sessions, session_progress,
                                           req.session_id)
                  IN  /\ inflight' = [inflight EXCEPT ![r] =
                             IF found = {} THEN Finished(req, 404)
                             ELSE LET d == CHOOSE d \in found : TRUE
                                  IN  [pc |-> "get_dynamic_test",
                                       session_id |-> req.session_id,
                                       test_id |-> d.session.test_id,
                                       answers_data |-> d.answers_data]]
                      /\ UNCHANGED <<user_answers, test_sessions, test_stats>>
             [] pc = "get_dynamic_test" ->
                  LET tests_found == TestData(dynamic_tests, tests_cache, questions,
                                              req.test_id)
                  IN  /\ inflight' = [inflight EXCEPT ![r] =
                             IF tests_found = {} THEN Finished(req, 404)
                             ELSE LET t == CHOOSE t \in tests_found : TRUE
                                  IN  [pc |-> IF t.questions = <<>> THEN "sum_answers"
                                              ELSE "update_answer_details",
                                       session_id |-> req.session_id,
                                       test_id |-> t.test_id,
                                       answers_data |-> req.answers_data,
                                       passing_grade |-> t.passing_grade,
                                       questions |-> t.questions,
                                       graded |-> 0]]
                      /\ UNCHANGED <<user_answers, test_sessions, test_stats>>
             [] pc = "update_answer_details" ->
                  LET d == DetailOf(req, req.graded + 1)
                  IN  /\ user_answers' =
                             update_answer_details(user_answers, req.session_id,
                                 d.question_id, d.correct_answer, d.is_correct,
                                 d.points_available, d.points_earned)
                      /\ inflight' = [inflight EXCEPT ![r] =
                             [req EXCEPT !.graded = req.graded + 1,
                                         !.pc = IF req.graded + 1 = Len(req.questions)
                                                THEN "sum_answers"
                                                ELSE "update_answer_details"]]
                      /\ UNCHANGED <<test_sessions, test_stats>>
             [] pc = "sum_answers" ->
                  /\ inflight' = [inflight EXCEPT ![r] =
                         [pc |-> "complete_session",
                          session_id |-> req.session_id, test_id |-> req.test_id,
                          passing_grade |-> req.passing_grade,
                          total_points |-> TotalPoints(req),
                          db_result |-> SumAnswers(user_answers, req.session_id)]]
                  /\ UNCHANGED <<user_answers, test_sessions, test_stats>>
             [] pc = "complete_session" ->
                  /\ test_sessions' =
                         complete_session(test_sessions, req.session_id,
                             [correct_answers |-> req.db_result.is_correct,
                              total_points |-> req.total_points,
                              points_earned |-> req.db_result.points_earned,
                              score_percentage |->
                                  Percentage(req.db_result.points_earned,
                                             req.total_points)])
                  /\ inflight' = [inflight EXCEPT ![r] =
                                     [req EXCEPT !.pc = "update_test_stats"]]
                  /\ UNCHANGED <<user_answers, test_stats>>
             [] pc = "update_test_stats" ->
                  \* SELECT * FROM test_stats WHERE test_id = ?
                  /\ inflight' = [inflight EXCEPT ![r] =
                         [pc |-> "update_test_stats_write",
                          current_stats |->
                              {st \in test_stats : st.test_id = req.test_id}] @@ req]
                  /\ UNCHANGED <<user_answers, test_sessions, test_stats>>
             [] pc = "update_test_stats_write" ->
                  LET percentage == Percentage(req.db_result.points_earned,
                                               req.total_points)
                      written == write_test_stats(test_stats, req.current_stats,
                                                  req.test_id, percentage)
                  IN  /\ test_stats' = written.stats
                      /\ inflight' = [inflight EXCEPT ![r] =
                             IF written.raised THEN Finished(req, 500) ELSE
                             [pc |-> "done", session_id |-> req.session_id,
                              status |-> 200,
                              score |-> req.db_result.is_correct,
                              total_points |-> req.total_points,
                              points_earned |-> req.db_result.points_earned,
                              percentage |-> Round2(percentage),
                              passed |-> RatGeq(percentage,
                                                Rat(req.passing_grade, 1))]]
                      /\ UNCHANGED <<user_answers, test_sessions>>
        /\ UNCHANGED <<bankVars, question_usage, now, dynamic_tests,
                       session_progress, tests_cache, ids_issued, response>>

\* the round trip the request is about to make raises (the database is
\* locked, the disk is full): nothing of it is written, the handler does not
\* catch it and the caller receives a 500
FailComplete(r) ==
    /\ inflight[r].pc \in StoreCalls
    /\ inflight' = [inflight EXCEPT ![r] = Finished(inflight[r], 500)]
    /\ UNCHANGED <<bankVars, question_usage, now, dynamic_tests, test_sessions,
                   session_progress, user_answers, test_stats, tests_cache,
                   ids_issued, response>>

RaceRequests ==
    { [test_type |-> "difficulty", num_questions |-> MinNumQuestions,
       config |-> [difficulty |-> "easy"]] }

NextRace ==
    \/ \E t \in RaceRequests : ids_issued < MaxGraded /\ generate_dynamic_test("X", t)
    \/ \E q \in {"q1", "q2"}, a \in Answers :
           submit_answer(SessionId(1), [question_id |-> q, selected_answer |-> a])
    \/ \E r \in Requests : BeginComplete(r, SessionId(1))
    \/ \E r \in Requests : StepComplete(r)
    \/ \E r \in Requests : FailComplete(r)

SpecRace == InitStore /\ [][NextRace]_vars

(***************************************************************************)
(* Two sessions of one test, each completed by one request: the first is   *)
(* started on a generated test, the second on that test as the cache       *)
(* holds it.                                                               *)
(***************************************************************************)
StatsStarts ==
    {[test_id |-> "random", is_random_test |-> FALSE,
      random_config |-> [difficulty |-> "easy", user_ip |-> "X"], user_ip |-> ""]}
    \cup {[test_id |-> t.test_id, is_random_test |-> FALSE,
           random_config |-> EmptyDict, user_ip |-> ""] : t \in tests_cache}

\* the session each request completes
SessionOfRequest(r) == IF r = "r1" THEN SessionId(1) ELSE SessionId(2)

NextStats ==
    \/ \E q \in StatsStarts : ids_issued < MaxSessions /\ start_session("X", q)
    \/ \E a \in Answers :
           submit_answer(SessionId(1), [question_id |-> "q1", selected_answer |-> a])
    \/ \E r \in Requests : BeginComplete(r, SessionOfRequest(r))
    \/ \E r \in Requests : StepComplete(r)

SpecStats == InitStore /\ [][NextStats]_vars

(***************************************************************************)
(* main.py: delete_test_session (DELETE /admin/session/{session_id}), and  *)
(* the usage rows under ingestion and deletion of banks and sessions.      *)
(***************************************************************************)
delete_test_session(session_id) ==
    /\ IF \E t \in test_sessions : t.session_id = session_id
       THEN /\ user_answers' = {a \in user_answers : a.session_id # session_id}
            /\ session_progress' =
                   {p \in session_progress : p.session_id # session_id}
            /\ test_sessions' = {t \in test_sessions : t.session_id # session_id}
            /\ response' = [op |-> "delete_test_session", status |-> 200,
                            session_id |-> session_id]
       ELSE /\ UNCHANGED <<user_answers, session_progress, test_sessions>>
            /\ response' = [op |-> "delete_test_session", status |-> 404,
                            session_id |-> session_id]
    /\ UNCHANGED <<bankVars, question_usage, now, dynamic_tests, test_stats,
                   tests_cache, ids_issued, inflight>>

\* documents that empty a bank, reload it, and move q1 to the other bank
UsageDocs ==
    { [bank_id |-> "b1", questions |-> <<QuestionDoc("q1", "v2")>>],
      [bank_id |-> "b2", questions |-> <<>>],
      [bank_id |-> "b2", questions |-> <<QuestionDoc("q1", "v1"),
                                         QuestionDoc("q3", "v2")>>] }

NextUsage ==
    \/ \E q \in {"q1", "q3"}, ip \in IPs, c \in BOOLEAN : UpsertUsage(q, ip, c)
    \/ \E d \in UsageDocs : upload_question_bank(d)
    \/ \E b \in BankIds : delete_question_bank(b)
    \/ \E t \in RaceRequests : ids_issued < MaxGraded /\ generate_dynamic_test("X", t)
    \/ delete_test_session(SessionId(1))

SpecUsage == InitStore /\ [][NextUsage]_vars

(***************************************************************************)
(* submit_answer and test_question_page one store round trip at a time.    *)
(***************************************************************************)
\* the round trips of submit_answer, in program order
SubmitCalls ==
    {"submit_get_session", "submit_update_session_progress",
     "submit_save_user_answer_basic"}

\* the round trips of test_question_page, in program order
PageCalls == {"page_get_session", "page_get_dynamic_test", "page_update_session_progress"}

\* answers[str(answer_data.question_id)] = {...} on the dict read from the store
WithAnswer(answers_data, answer_data) ==
    [k \in DOMAIN answers_data \cup {answer_data.question_id} |->
        IF k = answer_data.question_id THEN answer_data.selected_answer
        ELSE answers_data[k]]

\* a submit_answer request arrives
BeginSubmit(r, session_id, answer_data) ==
    /\ inflight[r].pc = "idle"
    /\ inflight' = [inflight EXCEPT ![r] =
                       [pc |-> "submit_get_session", session_id |-> session_id,
                        answer_data |-> answer_data]]
    /\ UNCHANGED <<bankVars, question_usage, now, dynamic_tests, test_sessions,
                   session_progress, user_answers, test_stats, tests_cache,
                   ids_issued, response>>

\* the next round trip of the submit_answer request
StepSubmit(r) ==
    LET req == inflight[r]
        pc == req.pc
    IN  /\ pc \in SubmitCalls
        /\ CASE pc = "submit_get_session" ->
                  LET found == get_session(test_sessions, session_progress,
                                           req.session_id)
                  IN  /\ inflight' = [inflight EXCEPT ![r] =
                             IF found = {}
                             THEN [pc |-> "done", op |-> "submit_answer",
                                   session_id |-> req.session_id, status |-> 404]
                             ELSE LET d == CHOOSE d \in found : TRUE
                                  IN  [pc |-> "submit_update_session_progress",
                                       session_id |-> req.session_id,
                                       answer_data |-> req.answer_data,
                                       session_status |-> d.session.status,
                                       current_question_index |->
                                           d.current_question_index,
                                       answers |-> WithAnswer(d.answers_data,
                                                              req.answer_data)]]
                      /\ UNCHANGED <<session_progress, user_answers>>
             [] pc = "submit_update_session_progress" ->
                  /\ session_progress' =
                         update_session_progress(session_progress, req.session_id,
                             req.current_question_index, req.answers)
                  /\ inflight' = [inflight EXCEPT ![r] =
                         [pc |-> "submit_save_user_answer_basic",
                          session_id |-> req.session_id,
                          session_status |-> req.session_status,
                          answer_data |-> req.answer_data]]
                  /\ UNCHANGED user_answers
             [] pc = "submit_save_user_answer_basic" ->
                  /\ user_answers' =
                         save_user_answer_basic(user_answers, req.session_id,
                             req.answer_data.question_id,
                             req.answer_data.selected_answer)
                  /\ inflight' = [inflight EXCEPT ![r] =
                         [pc |-> "done", op |-> "submit_answer",
                          session_id |-> req.session_id, status |-> 200,
                          detail |-> "answer_saved",
                          answer_data |-> req.answer_data]]
                  /\ UNCHANGED session_progress
        /\ UNCHANGED <<bankVars, question_usage, now, dynamic_tests, test_sessions,
                       test_stats, tests_cache, ids_issued, response>>

\* the round trip the request is about to make raises, or the process stops
\* there: nothing of it is written and the caller receives no 'answer_saved'
FailSubmit(r) ==
    /\ inflight[r].pc \in SubmitCalls
    /\ inflight' = [inflight EXCEPT ![r] =
                       [pc |-> "done", op |-> "submit_answer",
                        session_id |-> inflight[r].session_id, status |-> 500,
                        answer_data |-> inflight[r].answer_data]]
    /\ UNCHANGED <<bankVars, question_usage, now, dynamic_tests, test_sessions,
                   session_progress, user_answers, test_stats, tests_cache,
                   ids_issued, response>>

\* a GET /test/{session_id}/question/{question_index} request arrives
BeginPage(r, session_id, question_index) ==
    /\ inflight[r].pc = "idle"
    /\ inflight' = [inflight EXCEPT ![r] =
                       [pc |-> "page_get_session", session_id |-> session_id,
                        question_index |-> question_index]]
    /\ UNCHANGED <<bankVars, question_usage, now, dynamic_tests, test_sessions,
                   session_progress, user_answers, test_stats, tests_cache,
                   ids_issued, response>>

\* the page request has answered
PageDone(req, status) ==
    [pc |-> "done", op |-> "test_question_page", session_id |-> req.session_id,
     status |-> status]

\* the next round trip of the test_question_page request
StepPage(r) ==
    LET req == inflight[r]
        pc == req.pc
    IN  /\ pc \in PageCalls
        /\ CASE pc = "page_get_session" ->
                  LET found == get_session(test_sessions, session_progress,
                                           req.session_id)
                  IN  /\ inflight' = [inflight EXCEPT ![r] =
                             IF found = {} THEN PageDone(req, 404)
                             ELSE LET d == CHOOSE d \in found : TRUE
                                  IN  IF d.session.status = "completed"
                                      THEN PageDone(req, 302)
                                      ELSE [pc |-> "page_get_dynamic_test",
                                            session_id |-> req.session_id,
                                            question_index |-> req.question_index,
                                            session_status |-> d.session.status,
                                            test_id |-> d.session.test_id,
                                            answers_data |-> d.answers_data]]
                      /\ UNCHANGED session_progress
             [] pc = "page_get_dynamic_test" ->
                  LET tests_found == TestData(dynamic_tests, tests_cache, questions,
                                              req.test_id)
                  IN  /\ inflight' = [inflight EXCEPT ![r] =
                             IF tests_found = {} THEN PageDone(req, 404)
                             ELSE LET t == CHOOSE t \in tests_found : TRUE
                                  IN  IF \/ req.question_index < 0
                                         \/ req.question_index >= Len(t.questions)
                                      THEN PageDone(req, 404)
                                      ELSE [req EXCEPT
                                              !.pc = "page_update_session_progress"]]
                      /\ UNCHANGED session_progress
             [] pc = "page_update_session_progress" ->
                  /\ session_progress' =
                         update_session_progress(session_progress, req.session_id,
                             req.question_index, req.answers_data)
                  /\ inflight' = [inflight EXCEPT ![r] = PageDone(req, 200)]
        /\ UNCHANGED <<bankVars, question_usage, now, dynamic_tests, test_sessions,
                       user_answers, test_stats, tests_cache, ids_issued, response>>

\* question indexes asked for: the second question, and one past the end
PageIndexes == {1, 2}

NextSubmit ==
    \/ \E t \in RaceRequests : ids_issued < MaxGraded /\ generate_dynamic_test("X", t)
    \/ \E r \in Requests, q \in {"q1", "q2"} :
           BeginSubmit(r, SessionId(1), [question_id |-> q, selected_answer |-> 0])
    \/ \E r \in Requests : StepSubmit(r)
    \/ \E r \in Requests : FailSubmit(r)
    \/ \E r \in Requests, i \in PageIndexes : BeginPage(r, SessionId(1), i)
    \/ \E r \in Requests : StepPage(r)
    \/ \E b \in CompleteRequests : complete_test(SessionId(1), b)

SpecSubmit == InitStore /\ [][NextSubmit]_vars

(***************************************************************************)
(* The persisted answers: rows written by DatabaseManager.save_answer and  *)
(* by the handlers of a session.                                           *)
(***************************************************************************)
\* answer_data dicts as save_answer reads them: option 0 is the right one
AnswerData ==
    {[question_id |-> q, selected_answer |-> a, correct_answer |-> 0,
      is_correct |-> (a = 0), points_available |-> 1,
      points_earned |-> IF a = 0 THEN 1 ELSE 0] : q \in {"q1", "q2"}, a \in Answers}

SaveAnswer(session_id, answer_data) ==
    /\ Cardinality(user_answers) < MaxRows
    /\ user_answers' = save_answer(user_answers, session_id, answer_data)
    /\ response' = [op |-> "save_answer", session_id |-> session_id,
                    question_id |-> answer_data.question_id]
    /\ UNCHANGED <<bankVars, question_usage, now, dynamic_tests, test_sessions,
                   session_progress, test_stats, tests_cache, ids_issued, inflight>>

NextAnswers ==
    \/ \E r \in RaceRequests : ids_issued < MaxGraded /\ generate_dynamic_test("X", r)
    \/ \E d \in AnswerData : SaveAnswer(SessionId(1), d)
    \/ \E q \in {"q1", "q2"}, a \in Answers :
           submit_answer(SessionId(1), [question_id |-> q, selected_answer |-> a])
    \/ \E b \in CompleteRequests : complete_test(SessionId(1), b)

SpecAnswers == InitStore /\ [][NextAnswers]_vars

(***************************************************************************)
(* Properties of the selector (checked under SpecSel).                     *)
(***************************************************************************)
\* what the caller asked for, read off the criteria it supplied
AskedDifficulty(c) ==
    IF "difficulty" \in DOMAIN c /\ c.difficulty \notin {"", "mixed"}
    THEN {c.difficulty} ELSE {}

AskedCategories(c) == IF "categories" \in DOMAIN c THEN Range(c.categories) ELSE {}

AskedExclusions(c) ==
    IF "exclude_question_ids" \in DOMAIN c THEN Range(c.exclude_question_ids) ELSE {}

AskedKeyword(c) == IF "keywords" \in DOMAIN c THEN {c.keywords} ELSE {}

Satisfies(c, q) ==
    /\ \A d \in AskedDifficulty(c) : q.difficulty = d
    /\ AskedCategories(c) # {} => q.category \in AskedCategories(c)
    /\ q.question_id \notin AskedExclusions(c)
    /\ \A k \in AskedKeyword(c) :
           k # <<>> => \E i \in 1..Len(q.keywords_json) :
                          \E j \in i..Len(q.keywords_json) :
                             Like(SubSeq(q.keywords_json, i, j), k)

Matching(c) == {q \in questions : Satisfies(c, q)}

Identity(ip) == IF ip = "" THEN "anonymous" ELSE ip

\* the stored usage of question q by identity ip; no row counts as never used
StoredUsage(q, ip) ==
    LET rows == {u \in question_usage : u.question_id = q /\ u.user_ip = ip}
    IN  IF rows = {}
        THEN [times_used |-> 0, last_used |-> 0, incorrect_count |-> 0]
        ELSE CHOOSE u \in rows : TRUE

Selected == response.op = "get_questions_by_criteria"

RowIds(rows) == {rows[i].question_id : i \in 1..Len(rows)}

NoDuplicateIds(rows) ==
    \A i, j \in 1..Len(rows) : i # j => rows[i].question_id # rows[j].question_id

\* C3: get_questions_by_criteria returns at most `limit` questions, no
\* identifier twice, and every returned question has the requested
\* difficulty, a requested category and no excluded identifier.
C3_SelectionWithinLimitAndFilters ==
    Selected =>
        /\ Len(response.rows) <= response.limit
        /\ NoDuplicateIds(response.rows)
        /\ \A i \in 1..Len(response.rows) :
               LET r == response.rows[i]
               IN  /\ \A d \in AskedDifficulty(response.criteria) : r.difficulty = d
                   /\ AskedCategories(response.criteria) # {}
                          => r.category \in AskedCategories(response.criteria)
                   /\ r.question_id \notin AskedExclusions(response.criteria)

\* q3 is the only catA question left once q1 is excluded, and it is returned
C3_Witness ==
    /\ Selected
    /\ response.criteria = [categories |-> <<"catA">>, exclude_question_ids |-> <<"q1">>]
    /\ response.limit = 1
    /\ RowIds(response.rows) = {"q3"}

\* C4: the result is ordered by the requester's (times_used, last_used), a
\* missing usage row counting as (0, epoch); no matching question left out
\* was used strictly less often than a returned one; with q1 used 3 times
\* and q2 never, both matching and limit 1, the result is q2.
C4_AntiRepetitionOrder ==
    Selected =>
        LET ip == Identity(response.user_ip)
            rows == response.rows
            T(q) == StoredUsage(q, ip).times_used
            L(q) == StoredUsage(q, ip).last_used
        IN  /\ \A i, j \in 1..Len(rows) :
                   i < j => \/ T(rows[i].question_id) < T(rows[j].question_id)
                            \/ /\ T(rows[i].question_id) = T(rows[j].question_id)
                               /\ L(rows[i].question_id) <= L(rows[j].question_id)
            /\ \A q \in Matching(response.criteria) :
                   q.question_id \notin RowIds(rows)
                       => \A i \in 1..Len(rows) : T(q.question_id) >= T(rows[i].question_id)
            /\ (/\ response.criteria = [difficulty |-> "easy"]
                /\ response.limit = 1
                /\ T("q1") = 3 /\ T("q2") = 0)
                   => RowIds(rows) = {"q2"}

C4_Witness ==
    /\ Selected
    /\ response.criteria = [difficulty |-> "easy"]
    /\ response.limit = 1
    /\ response.user_ip = "X"
    /\ StoredUsage("q1", "X").times_used = 3
    /\ StoredUsage("q2", "X").times_used = 0
    /\ RowIds(response.rows) = {"q2"}

\* C5: the number of questions returned is min(limit, number of matching
\* questions); an absent or empty category list and an absent or "mixed"
\* difficulty constrain nothing; limit 0 and no match give the empty list.
C5_ResultCount ==
    Selected =>
        Len(response.rows) = Min(response.limit,
                                 Cardinality(Matching(response.criteria)))

C5_Witness ==
    /\ Selected
    /\ response.criteria = [difficulty |-> "mixed", categories |-> <<>>]
    /\ response.limit = 2
    /\ Len(response.rows) = 2
    /\ Cardinality(questions) = 3

SelectedFailed == response.op = "get_failed_questions"

FailedBy(ip) ==
    {q \in questions : StoredUsage(q.question_id, ip).incorrect_count > 0}

\* C6: get_failed_questions(identity, limit) returns only questions whose
\* usage row for that identity has incorrect_count > 0, without duplicates,
\* by incorrect_count descending then last_used ascending, cut to `limit`.
C6_FailedRecall ==
    SelectedFailed =>
        LET ip == response.user_ip
            rows == response.rows
            F(q) == StoredUsage(q, ip).incorrect_count
            L(q) == StoredUsage(q, ip).last_used
        IN  /\ \A i \in 1..Len(rows) : rows[i] \in
                   {q @@ [incorrect_count |-> F(q.question_id),
                          last_used |-> L(q.question_id)] : q \in FailedBy(ip)}
            /\ NoDuplicateIds(rows)
            /\ \A i, j \in 1..Len(rows) :
                   i < j => \/ F(rows[i].question_id) > F(rows[j].question_id)
                            \/ /\ F(rows[i].question_id) = F(rows[j].question_id)
                               /\ L(rows[i].question_id) <= L(rows[j].question_id)
            /\ Len(rows) = Min(response.limit, Cardinality(FailedBy(ip)))
            /\ \A q \in FailedBy(ip) :
                   q.question_id \notin RowIds(rows)
                       => \A i \in 1..Len(rows) : F(q.question_id) <= F(rows[i].question_id)

\* X failed q1 twice and answered q2 correctly: only q1 is recalled
C6_Witness ==
    /\ SelectedFailed
    /\ response.user_ip = "X"
    /\ response.limit = 2
    /\ StoredUsage("q1", "X").incorrect_count = 2
    /\ StoredUsage("q2", "X").times_used = 1
    /\ StoredUsage("q2", "X").incorrect_count = 0
    /\ RowIds(response.rows) = {"q1"}
    /\ Len(response.rows) = 1

\* the usage rows of one identity
UsageOf(ip) == {u \in question_usage : u.user_ip = ip}

\* C18: what the two selection queries can return to an identity is what they
\* can return from a store holding that identity's usage rows alone, whatever
\* rows the other identities have; and update_question_usage for one identity
\* leaves the rows of every other identity as they were.
C18_IdentitiesDoNotInteract ==
    /\ [](\A ip \in CallerIps, k \in 1..MaxLimit :
             /\ \A cr \in Criteria :
                   get_questions_by_criteria(questions, question_usage, cr, ip, k)
                     = get_questions_by_criteria(questions, UsageOf(Identity(ip)),
                                                 cr, ip, k)
             /\ get_failed_questions(questions, question_usage, Identity(ip), k)
                  = get_failed_questions(questions, UsageOf(Identity(ip)),
                                         Identity(ip), k))
    /\ [][response'.op = "update_question_usage" =>
             \A ip \in IPs \ {response'.user_ip} :
                {u \in question_usage' : u.user_ip = ip} = UsageOf(ip)]_vars

\* X is served its failed questions while the anonymous identity has failed
\* q1 and X has failed q2 only
C18_Witness ==
    /\ response.op = "get_failed_questions"
    /\ response.user_ip = "X"
    /\ response.limit = MaxLimit
    /\ RowIds(response.rows) = {"q2"}
    /\ \E u \in UsageOf("anonymous") : u.question_id = "q1" /\ u.incorrect_count > 0
    /\ \E u \in UsageOf("X") : u.question_id = "q2" /\ u.incorrect_count > 0

\* C24: across every operation, each usage row is still there afterwards and
\* none of its times_used, correct_count and incorrect_count is smaller.
C24_UsageNeverDecreases ==
    [][\A u \in question_usage :
          \E v \in question_usage' :
             /\ v.question_id = u.question_id
             /\ v.user_ip = u.user_ip
             /\ v.times_used >= u.times_used
             /\ v.correct_count >= u.correct_count
             /\ v.incorrect_count >= u.incorrect_count]_vars

\* the bank of q1 has just been deleted and the row of (q1, X), updated
\* twice, is still stored
C24_Witness ==
    /\ response.op = "delete_question_bank"
    /\ response.status = 200
    /\ \A q \in questions : q.question_id # "q1"
    /\ \E u \in question_usage :
          /\ u.question_id = "q1"
          /\ u.user_ip = "X"
          /\ u.times_used = 2
          /\ u.correct_count = 1
          /\ u.incorrect_count = 1

\* C30: every usage row has times_used = correct_count + incorrect_count;
\* there is exactly one row for each (question, identity) pair that was ever
\* updated; and the first update of a pair creates its row with times_used 1.
C30_UsageCountersAddUp ==
    /\ [](\A u \in question_usage :
             /\ u.times_used = u.correct_count + u.incorrect_count
             /\ UsageRows(question_usage, u.question_id, u.user_ip) = {u})
    /\ [][/\ \A u \in question_usage :
                UsageRows(question_usage', u.question_id, u.user_ip) # {}
          /\ response'.op = "update_question_usage" =>
                LET before == UsageRows(question_usage, response'.question_id,
                                        response'.user_ip)
                    after  == UsageRows(question_usage', response'.question_id,
                                        response'.user_ip)
                IN  /\ Cardinality(after) = 1
                    /\ before = {} => \A u \in after : u.times_used = 1]_vars

\* (q1, X) was updated with a correct and then an incorrect answer, and
\* (q1, anonymous) has just been updated for the first time
C30_Witness ==
    /\ response.op = "update_question_usage"
    /\ response.question_id = "q1"
    /\ response.user_ip = "anonymous"
    /\ \E u \in question_usage :
          /\ u.question_id = "q1" /\ u.user_ip = "X"
          /\ u.times_used = 2 /\ u.correct_count = 1 /\ u.incorrect_count = 1
    /\ \E u \in question_usage :
          /\ u.question_id = "q1" /\ u.user_ip = "anonymous"
          /\ u.times_used = 1 /\ u.correct_count = 1 /\ u.incorrect_count = 0

(***************************************************************************)
(* Properties of bank ingestion (checked under SpecBank).                  *)
(***************************************************************************)
StoredCount(bank_id) ==
    {b.questions_count : b \in {b \in question_banks : b.bank_id = bank_id}}

\* C10: ingesting a bank whose question count equals the count stored for
\* its identifier returns 0 and leaves the questions table and the bank
\* metadata as they were, whatever the submitted questions are.
C10_SameCountIsNoOp ==
    [][(/\ response'.op = "upload_question_bank"
        /\ Len(response'.bank_data.questions)
               \in StoredCount(response'.bank_data.bank_id))
           => /\ response'.questions_count = 0
              /\ questions' = questions
              /\ question_banks' = question_banks]_vars

\* a skipped document that names a question the stored bank does not hold
C10_Witness ==
    /\ response.op = "upload_question_bank"
    /\ response.questions_count = 0
    /\ Len(response.bank_data.questions) > 0
    /\ \E i \in 1..Len(response.bank_data.questions) :
           response.bank_data.questions[i].id
               \notin {r.question_id : r \in {r \in questions :
                                          r.bank_id = response.bank_data.bank_id}}

\* the identifiers of the questions tagged with the bank
TaggedIds(qs, bank_id) == {r.question_id : r \in {r \in qs : r.bank_id = bank_id}}

DocIds(bank_data) ==
    {bank_data.questions[i].id : i \in 1..Len(bank_data.questions)}

\* the step ingests a document that is not skipped: its bank is new or is
\* stored with another question count
Replaces ==
    /\ response'.op = "upload_question_bank"
    /\ Len(response'.bank_data.questions)
           \notin StoredCount(response'.bank_data.bank_id)

\* C11: ingesting a bank that is new or whose question count differs from the
\* stored one replaces the bank's questions: afterwards the identifiers tagged
\* with the bank are exactly those of the document, and the call reports the
\* number of questions it loaded.
C11_ChangedCountReplaces ==
    [][Replaces =>
          /\ TaggedIds(questions', response'.bank_data.bank_id)
                 = DocIds(response'.bank_data)
          /\ response'.questions_count = Len(response'.bank_data.questions)]_vars

\* bank b1, stored with q1 and q2, was replaced by a one-question document:
\* q3 is its only question and neither q1 nor q2 survives
C11_Witness ==
    /\ response.op = "upload_question_bank"
    /\ response.bank_data.bank_id = "b1"
    /\ response.questions_count = 1
    /\ DocIds(response.bank_data) = {"q3"}
    /\ TaggedIds(questions, "b1") = {"q3"}
    /\ {r.question_id : r \in questions} = {"q3"}

\* no two rows of the table hold the same identifier
UniqueIds(qs) == \A r1 \in qs, r2 \in qs : r1.question_id = r2.question_id => r1 = r2

\* the last question of the document that carries the identifier
LastWithId(bank_data, id) ==
    LET last == CHOOSE i \in 1..Len(bank_data.questions) :
                   /\ bank_data.questions[i].id = id
                   /\ \A j \in (i + 1)..Len(bank_data.questions) :
                         bank_data.questions[j].id # id
    IN  bank_data.questions[last]

\* C12: no two stored questions ever share an identifier; an ingested
\* question whose identifier is already stored, under whatever bank, is
\* written over that record, which takes the content and the bank tag of the
\* document, and no second record is made.
C12_IdentifiersStayUnique ==
    /\ UniqueIds(questions)
    /\ [][ /\ UniqueIds(questions')
           /\ Replaces =>
                 \A id \in DocIds(response'.bank_data) :
                    {r \in questions' : r.question_id = id}
                        = {QuestionRow(response'.bank_data.bank_id,
                                       LastWithId(response'.bank_data, id))} ]_vars

\* q3, loaded at startup under b2, was ingested with new content in a
\* document of b1: its one record now carries b1 and the new content, and b2,
\* still stored with a count of 1, has no question left
C12_Witness ==
    /\ response.op = "upload_question_bank"
    /\ response.bank_data.bank_id = "b1"
    /\ response.questions_count > 0
    /\ "q3" \in DocIds(response.bank_data)
    /\ {r \in questions : r.question_id = "q3"}
           = {QuestionRow("b1", QuestionDoc("q3", "v2"))}
    /\ StoredCount("b2") = {1}
    /\ TaggedIds(questions, "b2") = {}

\* C29: the questions_count stored for each bank equals the number of stored
\* questions tagged with that bank, also after an ingested document repeats
\* an identifier or takes an identifier over from another bank; and a bank
\* that is not stored (never ingested, or deleted) is loaded in full by its
\* next ingestion, whatever its question count.
C29_CountMatchesStoredQuestions ==
    /\ [](\A b \in question_banks :
             b.questions_count = Cardinality(TaggedIds(questions, b.bank_id)))
    /\ [][(/\ response'.op = "upload_question_bank"
           /\ StoredCount(response'.bank_data.bank_id) = {})
              => /\ TaggedIds(questions', response'.bank_data.bank_id)
                        = DocIds(response'.bank_data)
                 /\ response'.questions_count
                        = Len(response'.bank_data.questions)]_vars

\* the reload half of C29 on its own
C29_DeletedBankIsReloaded ==
    [][(/\ response'.op = "upload_question_bank"
        /\ StoredCount(response'.bank_data.bank_id) = {})
           => /\ TaggedIds(questions', response'.bank_data.bank_id)
                     = DocIds(response'.bank_data)
              /\ response'.questions_count
                     = Len(response'.bank_data.questions)]_vars

(***************************************************************************)
(* Properties of completion and grading (checked under Spec).              *)
(***************************************************************************)
\* the step is a complete_test request answered with the results
Completes == response'.op = "complete_test" /\ response'.status = 200

SessionOf(session_id) == CHOOSE s \in test_sessions : s.session_id = session_id

ProgressOf(session_id) == CHOOSE p \in session_progress : p.session_id = session_id

StoredTest(test_id) == CHOOSE t \in dynamic_tests : t.test_id = test_id

StoredQuestion(question_id) == CHOOSE q \in questions : q.question_id = question_id

\* the identifiers of a stored test that still name a question, in test order
TestOrder(test_id) ==
    SelectSeq(StoredTest(test_id).question_ids,
              LAMBDA id : \E q \in questions : q.question_id = id)

\* the sum of the 'total' (or 'correct') counts of the buckets
BucketSum(perf, col) ==
    LET RECURSIVE Sum(_)
        Sum(S) == IF S = {} THEN 0
                  ELSE LET b == CHOOSE b \in S : TRUE
                       IN  perf[b][col] + Sum(S \ {b})
    IN  Sum(DOMAIN perf)

\* the point weights of the questions graded correct
PointsOfCorrect(details) ==
    SeqSum([i \in 1..Len(details) |->
               IF details[i].is_correct THEN details[i].points_available ELSE 0])

\* C1: a session is finalized at most once: a complete_test request for a
\* session that is already completed is rejected, the session's stored score
\* fields stay as they are, and times_taken of its test is not incremented
\* a second time.
C1_FinalizedAtMostOnce ==
    [][ ( /\ response'.op = "complete_test"
          /\ \E s \in test_sessions : /\ s.session_id = response'.session_id
                                      /\ s.status = "completed" )
        => ( /\ response'.status # 200
             /\ test_sessions' = test_sessions
             /\ test_stats' = test_stats ) ]_vars

\* C2: completing a test upserts the usage row of every graded question for
\* the submitting identity: times_used grows by exactly 1, and exactly one of
\* correct_count / incorrect_count grows by 1, the one the grading names.
C2_CompletionUpsertsUsage ==
    [][ Completes =>
        LET ip == SessionOf(response'.session_id).user_ip
            Grew(id, col) == UsageCount(question_usage', id, ip, col)
                               - UsageCount(question_usage, id, ip, col)
        IN  \A i \in 1..Len(response'.detailed_answers) :
               LET d == response'.detailed_answers[i]
               IN  /\ Grew(d.question_id, "times_used") = 1
                   /\ Grew(d.question_id, "correct_count")
                        = (IF d.is_correct THEN 1 ELSE 0)
                   /\ Grew(d.question_id, "incorrect_count")
                        = (IF d.is_correct THEN 0 ELSE 1) ]_vars

\* C8: grading goes over every question of the test in test order; a question
\* is graded correct iff the submitted option equals its correct option; a
\* question without a submitted answer is graded incorrect with zero points
\* and is not skipped: it adds its weight to total_points and 1 to the total
\* of its category bucket and of its difficulty bucket, so that the bucket
\* totals sum to the number of questions.
C8_GradingCoversEveryQuestion ==
    [][ Completes =>
        LET r == response'
            answers_data == ProgressOf(r.session_id).answers_data
            order == TestOrder(SessionOf(r.session_id).test_id)
            details == r.detailed_answers
            InBucket(field, b) ==
                {i \in 1..Len(order) : StoredQuestion(order[i])[field] = b}
        IN  /\ Ids(details) = order
            /\ \A i \in 1..Len(details) :
                  LET d == details[i]
                      q == StoredQuestion(d.question_id)
                      answered == d.question_id \in DOMAIN answers_data
                  IN  /\ d.is_correct <=>
                            (answered /\ answers_data[d.question_id] = q.correct_answer)
                      /\ ~answered => (~d.is_correct /\ d.points_earned = 0)
                      /\ d.points_earned = (IF d.is_correct THEN DefaultPoints ELSE 0)
            /\ r.total_questions = Len(order)
            /\ r.total_points = DefaultPoints * Len(order)
            /\ BucketSum(r.category_performance, "total") = Len(order)
            /\ BucketSum(r.difficulty_performance, "total") = Len(order)
            /\ \A b \in DOMAIN r.category_performance :
                  r.category_performance[b].total
                      = Cardinality(InBucket("category", b))
            /\ \A b \in DOMAIN r.difficulty_performance :
                  r.difficulty_performance[b].total
                      = Cardinality(InBucket("difficulty", b)) ]_vars

\* a test of two questions of two categories was graded in an order that is
\* not the order of the identifiers, one question answered correctly and the
\* other not answered at all
C8_Witness ==
    /\ response.op = "complete_test"
    /\ response.status = 200
    /\ Ids(response.detailed_answers) = <<"q2", "q1">>
    /\ response.detailed_answers[1].selected_answer = -1
    /\ response.detailed_answers[2].is_correct
    /\ response.total_points = 2
    /\ DOMAIN response.category_performance = {"catA", "catB"}

\* C9: after grading, points_earned is the sum of the weights of the
\* questions graded correct, percentage is points_earned / total_points x 100
\* (0 when total_points is 0), and passed holds iff the percentage reaches the
\* passing grade of 70.
C9_PercentageAndPass ==
    (response.op = "complete_test" /\ response.status = 200) =>
        LET earned == PointsOfCorrect(response.detailed_answers)
            expected == IF response.total_points = 0 THEN Rat(0, 1)
                        ELSE Rat(earned * 100, response.total_points)
        IN  /\ response.points_earned = earned
            /\ response.percentage = Round2(expected)
            /\ response.passed <=> RatGeq(expected, Rat(DefaultPassingGrade, 1))

\* what a completion stores as the session's score
StoredScore(results) ==
    [correct_answers |-> results.db_result.is_correct,
     points_earned |-> results.db_result.points_earned,
     score_percentage |-> results.percentage]

\* C17: the score a completion stores comes from the persisted answers and
\* the test's questions alone: in the state the completion was made in, every
\* request body would have stored the correct_answers, points_earned and
\* score_percentage that this one stored.
C17_ScoreIgnoresRequestBody ==
    [][Completes =>
          LET session_id == response'.session_id
              session_data ==
                  CHOOSE d \in get_session(test_sessions, session_progress,
                                           session_id) : TRUE
              test_data ==
                  CHOOSE t \in TestData(dynamic_tests, tests_cache, questions,
                                        session_data.session.test_id) : TRUE
              stored == CHOOSE s \in test_sessions' : s.session_id = session_id
          IN  \A b \in CompleteRequests :
                 StoredScore(Results(user_answers, session_id, session_data,
                                     test_data, b))
                   = [correct_answers |-> stored.correct_answers,
                      points_earned |-> stored.points_earned,
                      score_percentage |-> stored.score_percentage]]_vars

\* a completion whose body claims both questions right while nothing was
\* submitted: the stored score is 0
C17_Witness ==
    /\ response.op = "complete_test"
    /\ response.status = 200
    /\ response.request_data = [final_answers |-> [q1 |-> 0, q2 |-> 2]]
    /\ session_progress # {}
    /\ \A p \in session_progress : DOMAIN p.answers_data = {}
    /\ \E s \in test_sessions :
          /\ s.session_id = response.session_id
          /\ s.status = "completed"
          /\ s.total_points = 2
          /\ s.points_earned = 0
          /\ s.score_percentage = Rat(0, 1)

\* C19: grading again the questions and answers a completion graded, with
\* the records that completion left in the store, gives the score,
\* total_points, percentage and pass/fail the completion gave.
C19_RegradingGivesTheSameResult ==
    [][Completes =>
          LET session_id == response'.session_id
              session_data ==
                  CHOOSE d \in get_session(test_sessions, session_progress,
                                           session_id) : TRUE
              test_data ==
                  CHOOSE t \in TestData(dynamic_tests, tests_cache, questions,
                                        session_data.session.test_id) : TRUE
              first == Results(user_answers, session_id, session_data, test_data,
                               response'.request_data)
              second == Results(user_answers', session_id, session_data, test_data,
                                response'.request_data)
          IN  /\ first.db_result.is_correct = response'.score
              /\ second.db_result.is_correct = response'.score
              /\ second.total_points = response'.total_points
              /\ second.db_result.points_earned = response'.points_earned
              /\ second.percentage = first.percentage
              /\ Round2(second.percentage) = response'.percentage
              /\ second.passed = response'.passed
              /\ second.detailed_answers = response'.detailed_answers]_vars

\* the session completed a second time with q1 answered right both times:
\* one of two points, 50 percent, not passed
C19_Witness ==
    /\ response.op = "complete_test"
    /\ response.status = 200
    /\ response.score = 1
    /\ response.total_points = 2
    /\ response.percentage = Rat(50, 1)
    /\ ~response.passed
    /\ \E st \in test_stats :
          /\ st.test_id = response.test_id
          /\ st.times_taken = 2
          /\ st.best_score = Rat(50, 1)
          /\ st.worst_score = Rat(50, 1)

\* C28: every completed session has 0 <= points_earned <= total_points,
\* correct_answers <= total_questions and 0 <= score_percentage <= 100.
C28_ScoreWithinBounds ==
    \A s \in test_sessions :
        s.status = "completed" =>
           /\ 0 <= s.points_earned
           /\ s.points_earned <= s.total_points
           /\ s.correct_answers <= s.total_questions
           /\ RatGeq(s.score_percentage, Rat(0, 1))
           /\ RatGeq(Rat(100, 1), s.score_percentage)

(***************************************************************************)
(* Properties of failed-question tests (checked under SpecFailed).         *)
(***************************************************************************)
\* the question was answered incorrectly in the session
FailedIn(session_id, question_id) ==
    \E a \in user_answers : /\ a.session_id = session_id
                            /\ a.question_id = question_id
                            /\ ~a.is_correct

\* C7: a failed-questions test generated with a source session identifier
\* holds only questions answered incorrectly in that session, and so does the
\* session created for it.
C7_SessionScopedFailedTest ==
    [][ LET r == response'
            source ==
                IF r.op = "generate_dynamic_test"
                THEN IF r.test_request.test_type = "failed_questions"
                     THEN Get(r.test_request.config, "source_session_id", "")
                     ELSE ""
                ELSE IF r.op = "start_session"
                THEN IF Get(r.request_data.random_config,
                            "failed_questions_only", FALSE)
                     THEN Get(r.request_data.random_config, "source_session_id", "")
                     ELSE ""
                ELSE ""
        IN  (source # "" /\ r.status = 200) =>
               /\ \A t \in dynamic_tests' :
                     t.test_id = r.test_id =>
                        \A i \in 1..Len(t.question_ids) :
                           FailedIn(source, t.question_ids[i])
               /\ \A p \in session_progress' :
                     p.session_id = r.session_id =>
                        \A i \in 1..Len(p.questions_data) :
                           FailedIn(source, p.questions_data[i]) ]_vars

\* C16: a generated test is stored with no identifier twice and only
\* identifiers of the pool its stored criteria matched when it was generated:
\* for a failed-questions test the identifiers listed in the criteria, for the
\* other tests the stored questions satisfying the criteria.
C16_StoredTestWithinItsCriteria ==
    [][ (response'.op = "generate_dynamic_test" /\ response'.status = 200) =>
           \A t \in dynamic_tests' :
              t.test_id = response'.test_id =>
                 /\ \A i, j \in 1..Len(t.question_ids) :
                       i # j => t.question_ids[i] # t.question_ids[j]
                 /\ Range(t.question_ids) \subseteq
                       IF t.test_type = "failed_questions"
                       THEN Range(t.criteria.question_ids)
                       ELSE {q.question_id : q \in Matching(t.criteria)} ]_vars

\* the keys of app.state.tests_cache
CacheKeys(cache) == {t.test_id : t \in cache}

\* C23: a start-session, answer, completion or generate-test request leaves
\* the key set of the cache of test definitions as it was.
C23_CacheIsReadOnly ==
    [][response'.op \in {"start_session", "submit_answer", "complete_test",
                         "generate_dynamic_test"}
          => CacheKeys(tests_cache') = CacheKeys(tests_cache)]_vars

(***************************************************************************)
(* Properties of rejected requests (checked under SpecGenerate).           *)
(***************************************************************************)
TestTypes == {"random", "category", "difficulty", "failed_questions"}

\* the criteria of a generate-test request cannot be served: the count is out
\* of range, no category is selected, the type is unknown, or a test of
\* failed questions is asked for and there is none
InvalidCriteria(user_ip, r) ==
    \/ r.num_questions < 5
    \/ r.num_questions > 100
    \/ r.test_type = "category" /\ Get(r.config, "categories", <<>>) = <<>>
    \/ r.test_type \notin TestTypes
    \/ /\ r.test_type = "failed_questions"
       /\ IF "source_session_id" \in DOMAIN r.config
          THEN ~\E q \in questions : FailedIn(r.config.source_session_id, q.question_id)
          ELSE FailedBy(user_ip) = {}

\* C20: a generate-test request with invalid criteria is answered 400 and
\* leaves the generated tests, the sessions and their progress as they were.
C20_InvalidCriteriaRejectedWhole ==
    [][ (response'.op = "generate_dynamic_test"
           /\ InvalidCriteria(response'.user_ip, response'.test_request)) =>
           /\ response'.status = 400
           /\ dynamic_tests' = dynamic_tests
           /\ test_sessions' = test_sessions
           /\ session_progress' = session_progress
           /\ ids_issued' = ids_issued ]_vars

\* a category request without categories is rejected while the store holds
\* one generated test and its session
C20_Witness ==
    /\ response.op = "generate_dynamic_test"
    /\ response.status = 400
    /\ response.test_request.test_type = "category"
    /\ response.detail = "At least one category must be selected"
    /\ Cardinality(dynamic_tests) = 1
    /\ Cardinality(test_sessions) = 1

(***************************************************************************)
(* Properties of requests in service together (checked under SpecRace).    *)
(***************************************************************************)
\* the request has written status = 'completed' for its session
Finalized(r) ==
    \/ inflight[r].pc \in {"update_test_stats", "update_test_stats_write"}
    \/ inflight[r].pc = "done" /\ inflight[r].status = 200

\* C13: of the complete_test requests for one session, at most one finalizes
\* it, and times_taken of a test counts each of its sessions at most once.
C13_OneFinalizerPerSession ==
    /\ \A r1 \in Requests, r2 \in Requests :
          (r1 # r2 /\ Finalized(r1) /\ Finalized(r2))
              => inflight[r1].session_id # inflight[r2].session_id
    /\ \A st \in test_stats :
          st.times_taken
              <= Cardinality({s \in test_sessions : s.test_id = st.test_id})

\* no request is between two of its round trips
Quiescent == \A r \in Requests : inflight[r].pc \in {"idle", "done"}

\* C14: completion is all-or-nothing: when the only complete_test request made
\* for a session ended in an error, the session is still active and nothing
\* was counted for its test; and, no request being in service, a completed
\* session has its statistics rolled up.
C14_CompletionAllOrNothing ==
    /\ \A r \in Requests :
          ( /\ inflight[r].pc = "done"
            /\ inflight[r].status = 500
            /\ \A o \in Requests \ {r} : inflight[o].pc = "idle" )
          => \A s \in test_sessions :
                s.session_id = inflight[r].session_id
                    => s.status = "active" /\ TimesTaken(test_stats, s.test_id) = 0
    /\ Quiescent =>
          \A s \in test_sessions :
             s.status = "completed" => TimesTaken(test_stats, s.test_id) >= 1

StatsOf(stats, test_id) == CHOOSE st \in stats : st.test_id = test_id

\* the sum of the scores a statistics row stands for: average times count
ScoreSum(st) == RatTimes(st.average_score, st.times_taken)

\* the score the finalization being made stores in its session
FinalScore == (CHOOSE s \in test_sessions' : s.session_id = response'.session_id).score_percentage

\* C15: every finalization of a test with score s makes times_taken one more
\* (1 for the first), adds s to the sum of scores the average stands for, so
\* that the average is (s1 + ... + sn) / n, and makes best_score and
\* worst_score the maximum and the minimum of the scores so far.
C15_StatsAreTheRollup ==
    [][Completes =>
          LET test_id == response'.test_id
              after == StatsOf(test_stats', test_id)
          IN  /\ \E st \in test_stats' : st.test_id = test_id
              /\ IF \E st \in test_stats : st.test_id = test_id
                 THEN LET before == StatsOf(test_stats, test_id)
                      IN  /\ after.times_taken = before.times_taken + 1
                          /\ ScoreSum(after) = RatAdd(ScoreSum(before), FinalScore)
                          /\ after.best_score = RatMax(before.best_score, FinalScore)
                          /\ after.worst_score = RatMin(before.worst_score, FinalScore)
                 ELSE /\ after.times_taken = 1
                      /\ after.average_score = FinalScore
                      /\ after.best_score = FinalScore
                      /\ after.worst_score = FinalScore
              /\ \A st \in test_stats' : st.test_id # test_id => st \in test_stats]_vars

\* two finalizations with different scores, 50 and 100 in either order
C15_Witness ==
    \E st \in test_stats :
        /\ st.times_taken = 2
        /\ st.best_score = Rat(100, 1)
        /\ st.worst_score = Rat(50, 1)
        /\ st.average_score = Rat(75, 1)

(***************************************************************************)
(* Properties of the persisted answers (checked under SpecAnswers).        *)
(***************************************************************************)
\* C21: there is at most one persisted answer per (session, question):
\* saving an answer again replaces the earlier record.
C21_OneAnswerPerQuestion ==
    \A a \in user_answers, b \in user_answers :
        (a.session_id = b.session_id /\ a.question_id = b.question_id) => a = b

(***************************************************************************)
(* Properties of answer submission (checked under SpecSubmit).             *)
(***************************************************************************)
\* the answer to the question is among the session's accumulated answers
InProgress(session_id, question_id) ==
    \E p \in session_progress :
        p.session_id = session_id /\ question_id \in DOMAIN p.answers_data

\* a submitted answer to the question is among the persisted Answer records
InRecords(session_id, question_id) ==
    \E a \in user_answers : /\ a.session_id = session_id
                            /\ a.question_id = question_id
                            /\ a.selected_answer # {}

\* the request has ended and was a submit_answer
Submitted(r) == inflight[r].pc = "done" /\ inflight[r].op = "submit_answer"

\* C22: when the only request made has been a submit_answer, whether it was
\* acknowledged or ended in an error, its answer is in the accumulated
\* answers of the session exactly if it is in the persisted Answer records.
C22_SubmissionIsAtomic ==
    \A r \in Requests :
        (Submitted(r) /\ inflight[r].status # 404
            /\ \A o \in Requests \ {r} : inflight[o].pc = "idle")
        => (InProgress(inflight[r].session_id, inflight[r].answer_data.question_id)
              <=> InRecords(inflight[r].session_id,
                            inflight[r].answer_data.question_id))

\* C25: no request being in service, the accumulated answers of the session
\* hold every answer acknowledged with 'answer_saved'.
C25_NoAcknowledgedAnswerLost ==
    Quiescent =>
        \A r \in Requests :
            (Submitted(r) /\ inflight[r].status = 200)
            => InProgress(inflight[r].session_id, inflight[r].answer_data.question_id)

\* the request has read its session from the store
HasSession(r) ==
    inflight[r].pc \in (SubmitCalls \cup PageCalls)
                          \ {"submit_get_session", "page_get_session"}

\* C26: a completed session stays completed, and a submit_answer or
\* test_question_page request that found it completed leaves its session row,
\* its accumulated answers and its persisted Answer records as they were.
C26_CompletedSessionIsFrozen ==
    [][\A s \in test_sessions :
          s.status = "completed" =>
             /\ \A t \in test_sessions' :
                   t.session_id = s.session_id => t.status = "completed"
             /\ \A r \in Requests :
                   ( /\ HasSession(r)
                     /\ inflight[r].session_id = s.session_id
                     /\ inflight[r].session_status = "completed"
                     /\ inflight'[r] # inflight[r] ) =>
                   /\ s \in test_sessions'
                   /\ \A p \in session_progress :
                         p.session_id = s.session_id => p \in session_progress'
                   /\ {a \in user_answers' : a.session_id = s.session_id}
                        = {a \in user_answers : a.session_id = s.session_id}]_vars

(***************************************************************************)
(* Properties of the statistics rollup (checked under SpecStats).          *)
(***************************************************************************)
\* the completed sessions of a test
CompletedOf(test_id) ==
    {t \in test_sessions : t.test_id = test_id /\ t.status = "completed"}

\* C27: no request being in service, the statistics of every test with
\* completed sessions count each of them, and best_score and worst_score are
\* the largest and the smallest of their scores.
C27_RollupLosesNoUpdate ==
    Quiescent =>
        \A s \in test_sessions :
            s.status = "completed" =>
               \E st \in test_stats :
                  /\ st.test_id = s.test_id
                  /\ st.times_taken = Cardinality(CompletedOf(s.test_id))
                  /\ \A t \in CompletedOf(s.test_id) :
                        /\ RatGeq(st.best_score, t.score_percentage)
                        /\ RatGeq(t.score_percentage, st.worst_score)
                  /\ \E t \in CompletedOf(s.test_id) :
                        st.best_score = t.score_percentage
                  /\ \E t \in CompletedOf(s.test_id) :
                        st.worst_score = t.score_percentage

=============================================================================
